---- MODULE Spec2Model ----
(***************************************************************************)
(* A model of the gantt repository (src/aarons-attempt and the top-level   *)
(* scripts): the CSV -> Task -> ProjectTimeline pipelines, the             *)
(* Application.run exit-code logic, and the Ad-Hoc debugging sessions.     *)
(*                                                                         *)
(* Conventions                                                             *)
(*   - a calendar date is the integer YYYYMMDD (integer order is calendar  *)
(*     order); NoDate (0) stands for Python's None where a date is         *)
(*     expected;                                                           *)
(*   - a date STRING is a record [form, x, y, z] giving its lexical form   *)
(*     and its three numeric fields in the order they are written, so      *)
(*     that datetime.strptime can be modelled per format;                  *)
(*   - a text cell of the CSV is a string; None is Python's None, which    *)
(*     csv.DictReader puts in the cells a short row does not have.         *)
(***************************************************************************)
EXTENDS Integers, Sequences, FiniteSets, TLC

VARIABLES
    csv,    \* the rows of the CSV file being prepared (header excluded)
    res,    \* the outcome of the last pipeline run / constructor call
    app,    \* one invocation of Application.run: its environment and outcome
    issue,  \* the issue text handed to assess_issue_complexity
    ret,    \* the last call into the debug system: arguments and return value
    active_sessions,    \* AdHocDebugger.active_sessions: session_id -> DebugSession
    session_history,    \* AdHocDebugger.session_history
    now,    \* the wall clock, what datetime.now() returns
    files,  \* debug_sessions/<session_id>.json
    db      \* debug_sessions/sessions.db: the sessions and attempts tables

debugVars == <<issue, ret, active_sessions, session_history, now, files, db>>
vars == <<csv, res, app, debugVars>>

-----------------------------------------------------------------------------
(* The debug system before anything is done with it: AdHocDebugger.__init__ *)
(* and SessionManager.__init__ / init_database on a fresh workspace.        *)

NoIssue == [description |-> <<>>, error_context |-> <<>>, has_context |-> FALSE,
            long_description |-> FALSE, long_context |-> FALSE, phrases |-> 0]
NoReturn == [op |-> "none"]
EmptyDb == [sessions |-> <<>>, attempts |-> <<>>]

DebugIdle ==
    /\ issue = NoIssue
    /\ ret = NoReturn
    /\ active_sessions = <<>>
    /\ session_history = <<>>
    /\ now = 0
    /\ files = <<>>
    /\ db = EmptyDb

-----------------------------------------------------------------------------
(* Bounds of the model *)

MaxRows == 2

-----------------------------------------------------------------------------
(* Python values *)

None == "<None>"
NoDate == 0

DNone  == [form |-> "none",  x |-> 0, y |-> 0, z |-> 0]
DEmpty == [form |-> "empty", x |-> 0, y |-> 0, z |-> 0]
Dash(yy, mm, dd)  == [form |-> "dash",  x |-> yy, y |-> mm, z |-> dd]   \* "yy-mm-dd"
Slash(a, b, yy)   == [form |-> "slash", x |-> a,  y |-> b,  z |-> yy]   \* "a/b/yy"
Long(mm, dd, yy)  == [form |-> "long",  x |-> mm, y |-> dd, z |-> yy]   \* "February dd, yy"
Abbr(mm, dd, yy)  == [form |-> "abbr",  x |-> mm, y |-> dd, z |-> yy]   \* "Feb dd, yy"

\* str.strip(): the only whitespace-only cell of the model is " "
Strip(s) == IF s = " " THEN "" ELSE s

\* truth value of a str
Truthy(s) == s # "" /\ s # None

-----------------------------------------------------------------------------
(* datetime.date and datetime.strptime *)

IsLeap(yy) == (yy % 4 = 0 /\ yy % 100 # 0) \/ yy % 400 = 0

DaysInMonth(yy, mm) ==
    IF mm \in {4, 6, 9, 11} THEN 30
    ELSE IF mm = 2 THEN (IF IsLeap(yy) THEN 29 ELSE 28)
    ELSE 31

ValidYMD(yy, mm, dd) ==
    /\ yy \in 1..9999
    /\ mm \in 1..12
    /\ dd >= 1 /\ dd <= DaysInMonth(yy, mm)

MkDate(yy, mm, dd) == yy * 10000 + mm * 100 + dd

\* datetime.strptime(s, fmt).date(); NoDate when it raises ValueError.
\* "May" is both the full and the abbreviated name of month 5.
StrpTime(s, fmt) ==
    CASE fmt = "%Y-%m-%d" ->
            IF s.form = "dash" /\ ValidYMD(s.x, s.y, s.z)
            THEN MkDate(s.x, s.y, s.z) ELSE NoDate
      [] fmt = "%m/%d/%Y" ->
            IF s.form = "slash" /\ ValidYMD(s.z, s.x, s.y)
            THEN MkDate(s.z, s.x, s.y) ELSE NoDate
      [] fmt = "%d/%m/%Y" ->
            IF s.form = "slash" /\ ValidYMD(s.z, s.y, s.x)
            THEN MkDate(s.z, s.y, s.x) ELSE NoDate
      [] fmt = "%B %d, %Y" ->
            IF (s.form = "long" \/ (s.form = "abbr" /\ s.x = 5)) /\ ValidYMD(s.z, s.x, s.y)
            THEN MkDate(s.z, s.x, s.y) ELSE NoDate
      [] fmt = "%b %d, %Y" ->
            IF (s.form = "abbr" \/ (s.form = "long" /\ s.x = 5)) /\ ValidYMD(s.z, s.x, s.y)
            THEN MkDate(s.z, s.x, s.y) ELSE NoDate
      [] OTHER -> NoDate

\* for fmt in formats: try: return strptime(...) except ValueError: continue
RECURSIVE TryFormats(_, _, _)
TryFormats(s, formats, i) ==
    IF i > Len(formats) THEN NoDate
    ELSE IF StrpTime(s, formats[i]) # NoDate THEN StrpTime(s, formats[i])
    ELSE TryFormats(s, formats, i + 1)

DStr(s) == s.form \notin {"none", "empty"}      \* a non-empty str

-----------------------------------------------------------------------------
(* The CSV file.  Header: Task ID, Task Name, Start Date, Due Date,        *)
(* Category, Dependencies.  A row with n < 6 cells reads None in the       *)
(* columns it does not have (csv.DictReader, restval=None).                *)

ColumnIndex(col) ==
    CASE col = "id" -> 1 [] col = "name" -> 2 [] col = "start" -> 3
      [] col = "due" -> 4 [] col = "category" -> 5 [] col = "deps" -> 6

\* row.get(<text column>, '')
Get(row, col) == IF ColumnIndex(col) > row.n THEN None ELSE row[col]

\* row.get(<date column>, '')
GetDate(row, col) == IF ColumnIndex(col) > row.n THEN DNone ELSE row[col]

-----------------------------------------------------------------------------
(* Task (models.py and core.py) *)

MinStartDate == 20200101
MaxDueDate == 20301231

NoTask == [id |-> "", name |-> "", start_date |-> NoDate, due_date |-> NoDate,
           category |-> "", dependencies |-> "", is_milestone |-> FALSE]

Raise(e)   == [kind |-> "raise", exc |-> e, task |-> NoTask]
Skip       == [kind |-> "none", exc |-> "", task |-> NoTask]
Made(t)    == [kind |-> "task", exc |-> "", task |-> t]

\* Task._clean_name: strips the first matching prefix of
\* config.tasks.name_prefixes_to_remove ("Milestone: ", "Draft ", "Complete ")
CleanName(name) ==
    CASE name = "Milestone: n" -> "n"
      [] name = "Draft n" -> "n"
      [] name = "Complete n" -> "n"
      [] OTHER -> name

\* models.Task._validate_dates: TRUE when it raises ValueError
ModelsTaskValidateDates(start_date, due_date) ==
    \/ start_date > due_date
    \/ start_date < MinStartDate
    \/ due_date > MaxDueDate

\* a Task class whose _validate_dates accepts every pair of dates
CoreTaskValidateDatesUnchecked(start_date, due_date) ==
    FALSE

\* core.Task._validate_dates: TRUE when it raises ValueError
CoreTaskValidateDates(start_date, due_date) ==
    start_date > due_date

\* Task._determine_milestone
DetermineMilestone(start_date, due_date) == (start_date = due_date)

\* models.Task(...): __post_init__ = _clean_name; _validate_dates; _determine_milestone
ModelsTask(id, name, start_date, due_date, category, dependencies) ==
    IF ModelsTaskValidateDates(start_date, due_date) THEN Raise("ValueError")
    ELSE Made([id |-> id, name |-> CleanName(name),
               start_date |-> start_date, due_date |-> due_date,
               category |-> category, dependencies |-> dependencies,
               is_milestone |-> DetermineMilestone(start_date, due_date)])

\* core.Task(...): __post_init__ = _validate_dates; _determine_milestone
CoreTask(id, name, start_date, due_date, category, dependencies) ==
    IF CoreTaskValidateDates(start_date, due_date) THEN Raise("ValueError")
    ELSE Made([id |-> id, name |-> name,
               start_date |-> start_date, due_date |-> due_date,
               category |-> category, dependencies |-> dependencies,
               is_milestone |-> DetermineMilestone(start_date, due_date)])

\* the Task class a pipeline imports: core.py its own, processor.py and
\* data_processor.py the one of models.py
NewTask(cls, id, name, start_date, due_date, category, dependencies) ==
    IF cls = "core"
    THEN CoreTask(id, name, start_date, due_date, category, dependencies)
    ELSE ModelsTask(id, name, start_date, due_date, category, dependencies)

-----------------------------------------------------------------------------
(* ProjectTimeline (models.py and core.py) *)

\* min(task.start_date for task in tasks): a left fold keeping the smaller
RECURSIVE MinStart(_, _, _)
MinStart(tasks, i, acc) ==
    IF i > Len(tasks) THEN acc
    ELSE MinStart(tasks, i + 1,
                  IF tasks[i].start_date < acc THEN tasks[i].start_date ELSE acc)

\* max(task.due_date for task in tasks): a left fold keeping the larger
RECURSIVE MaxDue(_, _, _)
MaxDue(tasks, i, acc) ==
    IF i > Len(tasks) THEN acc
    ELSE MaxDue(tasks, i + 1,
                IF tasks[i].due_date > acc THEN tasks[i].due_date ELSE acc)

NoTimeline == [kind |-> "none", exc |-> "", tasks |-> <<>>,
               start_date |-> NoDate, end_date |-> NoDate]

\* a __post_init__ that keeps the dates it was given
ModelsProjectTimelineAsPassed(tasks, start_date, end_date) ==
    IF tasks = <<>>
    THEN [NoTimeline EXCEPT !.kind = "raise", !.exc = "ValueError"]
    ELSE [kind |-> "timeline", exc |-> "", tasks |-> tasks,
          start_date |-> start_date, end_date |-> end_date]

\* models.ProjectTimeline(tasks, title, start_date, end_date).__post_init__
ModelsProjectTimeline(tasks, start_date, end_date) ==
    IF tasks = <<>>
    THEN [NoTimeline EXCEPT !.kind = "raise", !.exc = "ValueError"]
    ELSE [kind |-> "timeline", exc |-> "", tasks |-> tasks,
          start_date |-> MinStart(tasks, 2, tasks[1].start_date),
          end_date |-> MaxDue(tasks, 2, tasks[1].due_date)]

\* core.ProjectTimeline(tasks, title, start_date, end_date).__post_init__
CoreProjectTimeline(tasks, start_date, end_date) ==
    IF tasks = <<>>
    THEN [NoTimeline EXCEPT !.kind = "raise", !.exc = "ValueError"]
    ELSE [kind |-> "timeline", exc |-> "", tasks |-> tasks,
          start_date |-> MinStart(tasks, 2, tasks[1].start_date),
          end_date |-> MaxDue(tasks, 2, tasks[1].due_date)]

NewTimeline(cls, tasks, start_date, end_date) ==
    IF cls = "core" THEN CoreProjectTimeline(tasks, start_date, end_date)
    ELSE ModelsProjectTimeline(tasks, start_date, end_date)

-----------------------------------------------------------------------------
(* core.py / processor.py: DataProcessor (the two files have the same      *)
(* text; core.py builds core.Task, processor.py builds models.Task)        *)

CoreFormats == <<"%Y-%m-%d", "%m/%d/%Y", "%d/%m/%Y", "%B %d, %Y">>

\* DataProcessor._parse_date
CoreParseDate(date_str) ==
    IF ~DStr(date_str) THEN NoDate
    ELSE TryFormats(date_str, CoreFormats, 1)

\* DataProcessor._parse_csv_row: a Task, None, or an exception
CoreParseCsvRow(row, cls) ==
    IF \/ Get(row, "id") = None \/ Get(row, "name") = None
       \/ GetDate(row, "start") = DNone \/ GetDate(row, "due") = DNone
       \/ Get(row, "category") = None
    THEN Raise("AttributeError")                         \* None.strip()
    ELSE IF ~(/\ Truthy(Strip(Get(row, "id")))
              /\ Truthy(Strip(Get(row, "name")))
              /\ DStr(GetDate(row, "start"))
              /\ DStr(GetDate(row, "due")))
    THEN Skip
    ELSE IF \/ CoreParseDate(GetDate(row, "start")) = NoDate
            \/ CoreParseDate(GetDate(row, "due")) = NoDate
    THEN Skip
    ELSE IF Get(row, "deps") = None
    THEN Raise("AttributeError")
    ELSE NewTask(cls, Strip(Get(row, "id")), Strip(Get(row, "name")),
                 CoreParseDate(GetDate(row, "start")),
                 CoreParseDate(GetDate(row, "due")),
                 Strip(Get(row, "category")), Strip(Get(row, "deps")))

\* a logged warning / collected error string: what, for which CSV line, about what
Warning(kind, rownum, ref) == [kind |-> kind, row |-> rownum, ref |-> ref]

\* DataProcessor._read_csv_data: per-row try/except, row numbers start at 2
RECURSIVE CoreReadCsvData(_, _, _, _, _)
CoreReadCsvData(rows, i, tasks, log, cls) ==
    IF i > Len(rows) THEN [tasks |-> tasks, log |-> log]
    ELSE LET r == CoreParseCsvRow(rows[i], cls) IN
         CASE r.kind = "task" ->
                CoreReadCsvData(rows, i + 1, Append(tasks, r.task), log, cls)
           [] r.kind = "none" ->
                CoreReadCsvData(rows, i + 1, tasks, log, cls)
           [] r.kind = "raise" ->
                CoreReadCsvData(rows, i + 1, tasks,
                                Append(log, Warning(r.exc, i + 1, "")), cls)

Result(pipeline, status, tl, log, today) ==
    [pipeline |-> pipeline, status |-> status, tasks |-> tl.tasks,
     start_date |-> tl.start_date, end_date |-> tl.end_date,
     log |-> log, passed |-> today]

\* DataProcessor.process_csv_to_timeline
CoreProcessCsvToTimeline(rows, cls, pipeline, today) ==
    LET read == CoreReadCsvData(rows, 1, <<>>, <<>>, cls) IN
    IF read.tasks = <<>>
    THEN Result(pipeline, "ValueError", NoTimeline, read.log, today)
    ELSE LET tl == NewTimeline(cls, read.tasks, today[1], today[2]) IN
         Result(pipeline, IF tl.kind = "timeline" THEN "ok" ELSE tl.exc,
                tl, read.log, today)

-----------------------------------------------------------------------------
(* data_processor.py: CSVReader *)

ReaderFormats == <<"%Y-%m-%d", "%m/%d/%Y", "%d/%m/%Y", "%B %d, %Y", "%b %d, %Y">>

\* CSVReader._parse_date
CSVReaderParseDate(date_str) ==
    IF ~DStr(date_str) THEN NoDate
    ELSE TryFormats(date_str, ReaderFormats, 1)

\* CSVReader._validate_row: [raised, errors]; None.strip() raises AttributeError
CSVReaderValidateRow(row, row_num) ==
    IF \/ Get(row, "name") = None
       \/ GetDate(row, "start") = DNone
       \/ GetDate(row, "due") = DNone
    THEN [raised |-> TRUE, errors |-> <<>>]
    ELSE LET e1 == IF ~Truthy(Strip(Get(row, "name")))
                   THEN <<Warning("Empty", row_num, "Task Name")>> ELSE <<>>
             e2 == IF ~DStr(GetDate(row, "start"))
                   THEN <<Warning("Empty", row_num, "Start Date")>> ELSE <<>>
             e3 == IF ~DStr(GetDate(row, "due"))
                   THEN <<Warning("Empty", row_num, "Due Date")>> ELSE <<>>
             start_date == CSVReaderParseDate(GetDate(row, "start"))
             due_date == CSVReaderParseDate(GetDate(row, "due"))
             e4 == IF start_date # NoDate /\ due_date # NoDate /\ start_date > due_date
                   THEN <<Warning("Start after due", row_num, "")>> ELSE <<>>
         IN [raised |-> FALSE, errors |-> e1 \o e2 \o e3 \o e4]

\* CSVReader.read_csv_data, the loop over the rows: an exception raised by a
\* row leaves the loop (the try encloses the whole loop) and is recorded as
\* "Unexpected error reading file"; the rows read so far are kept.
\* data holds each accepted row with its line number.
RECURSIVE CSVReaderReadRows(_, _, _, _)
CSVReaderReadRows(rows, i, data, errors) ==
    IF i > Len(rows) THEN [data |-> data, errors |-> errors]
    ELSE LET v == CSVReaderValidateRow(rows[i], i + 1) IN
         IF v.raised
         THEN [data |-> data,
               errors |-> Append(errors, Warning("Unexpected error reading file", i + 1, ""))]
         ELSE IF v.errors # <<>>
         THEN CSVReaderReadRows(rows, i + 1, data, errors \o v.errors)
         ELSE CSVReaderReadRows(rows, i + 1,
                                Append(data, [num |-> i + 1, row |-> rows[i]]), errors)

\* CSVReader.read_csv_data (file exists, UTF-8, header complete)
CSVReaderReadCsvData(rows) == CSVReaderReadRows(rows, 1, <<>>, <<>>)

-----------------------------------------------------------------------------
(* models.py: TaskValidator *)

\* re.match(r'^[A-Za-z0-9_-]+$', task_id)
IdPattern(task_id) == task_id \notin {"", "A.1"}

\* config.tasks.date_format
DateFormat == "%Y-%m-%d"

\* TaskValidator.validate_csv_row: [raised, errors]
ValidateCsvRow(row, row_num) ==
    IF \/ Get(row, "id") = None \/ Get(row, "name") = None
       \/ GetDate(row, "start") = DNone \/ GetDate(row, "due") = DNone
    THEN [raised |-> TRUE, errors |-> <<>>]
    ELSE LET miss(col, present) ==
                 IF present THEN <<>>
                 ELSE <<Warning("Missing required field", row_num, col)>>
             e1 == miss("Task ID", Truthy(Strip(Get(row, "id"))))
             e2 == miss("Task Name", Truthy(Strip(Get(row, "name"))))
             e3 == miss("Start Date", DStr(GetDate(row, "start")))
             e4 == miss("Due Date", DStr(GetDate(row, "due")))
             start_date == StrpTime(GetDate(row, "start"), DateFormat)
             due_date == StrpTime(GetDate(row, "due"), DateFormat)
             e5 == IF DStr(GetDate(row, "start")) /\ DStr(GetDate(row, "due"))
                   THEN IF start_date = NoDate \/ due_date = NoDate
                        THEN <<Warning("Invalid date format", row_num, "")>>
                        ELSE IF start_date > due_date
                        THEN <<Warning("Start after due", row_num, "")>>
                        ELSE <<>>
                   ELSE <<>>
             task_id == Strip(Get(row, "id"))
             e6 == IF Truthy(task_id) /\ ~IdPattern(task_id)
                   THEN <<Warning("invalid characters", row_num, task_id)>> ELSE <<>>
         IN [raised |-> FALSE, errors |-> e1 \o e2 \o e3 \o e4 \o e5 \o e6]

\* [dep.strip() for dep in task.dependencies.split(',')]
DepIds(dependencies) ==
    CASE dependencies = "A" -> <<"A">>
      [] dependencies = "B" -> <<"B">>
      [] dependencies = "Z" -> <<"Z">>
      [] dependencies = "A,Z" -> <<"A", "Z">>
      [] OTHER -> <<"">>

RECURSIVE CountId(_, _, _)
CountId(tasks, id, i) ==
    IF i > Len(tasks) THEN 0
    ELSE (IF tasks[i].id = id THEN 1 ELSE 0) + CountId(tasks, id, i + 1)

\* the dependency errors of task number k, dependency by dependency
RECURSIVE MissingDeps(_, _, _, _)
MissingDeps(tasks, k, deps, j) ==
    IF j > Len(deps) THEN <<>>
    ELSE (IF deps[j] # "" /\ CountId(tasks, deps[j], 1) = 0
          THEN <<Warning("depends on non-existent task ID", k, deps[j])>>
          ELSE <<>>)
         \o MissingDeps(tasks, k, deps, j + 1)

RECURSIVE DependencyErrors(_, _)
DependencyErrors(tasks, k) ==
    IF k > Len(tasks) THEN <<>>
    ELSE (IF tasks[k].dependencies # ""
          THEN MissingDeps(tasks, k, DepIds(tasks[k].dependencies), 1)
          ELSE <<>>)
         \o DependencyErrors(tasks, k + 1)

\* TaskValidator.validate_timeline: the list of error strings
ValidateTimeline(tasks) ==
    (IF \E k \in 1..Len(tasks) : CountId(tasks, tasks[k].id, 1) > 1
     THEN <<Warning("Duplicate task IDs found", 0, "")>> ELSE <<>>)
    \o DependencyErrors(tasks, 1)

-----------------------------------------------------------------------------
(* data_processor.py: TaskProcessor, TimelineBuilder, DataProcessor *)

\* TaskProcessor.parse_date
TaskProcessorParseDate(date_str) ==
    IF ~DStr(date_str) THEN NoDate
    ELSE StrpTime(date_str, DateFormat)

\* TaskProcessor.process_csv_row: [kind, exc, task, log]; kind "raise" is an
\* exception that the method does not catch
ProcessCsvRow(row, row_num) ==
    LET v == ValidateCsvRow(row, row_num)
        task_id == Strip(Get(row, "id"))
        task_name == Strip(Get(row, "name"))
        start_date == TaskProcessorParseDate(GetDate(row, "start"))
        due_date == TaskProcessorParseDate(GetDate(row, "due"))
        with(r, log) == [kind |-> r.kind, exc |-> r.exc, task |-> r.task, log |-> log]
    IN  IF v.raised THEN with(Raise("AttributeError"), <<>>)
        ELSE IF v.errors # <<>>
        THEN with(Skip, <<Warning("Skipping row due to validation errors", row_num, "")>>)
        ELSE IF ~(/\ Truthy(task_id) /\ Truthy(task_name)
                  /\ start_date # NoDate /\ due_date # NoDate)
        THEN with(Skip, <<Warning("Skipping row with missing required fields", row_num, "")>>)
        ELSE IF Get(row, "category") = None \/ Get(row, "deps") = None
        THEN with(Raise("AttributeError"), <<>>)               \* None.strip()
        ELSE LET t == NewTask("models", task_id, task_name, start_date, due_date,
                              Strip(Get(row, "category")), Strip(Get(row, "deps")))
             IN IF t.kind = "raise"
                THEN with(Skip, <<Warning("Skipping task due to validation error", row_num, "")>>)
                ELSE with(t, <<>>)

\* TaskProcessor.process_tasks: [raised, tasks, log]; no try around the loop
RECURSIVE ProcessTasks(_, _, _, _)
ProcessTasks(data, i, tasks, log) ==
    IF i > Len(data) THEN [raised |-> FALSE, tasks |-> tasks, log |-> log]
    ELSE LET r == ProcessCsvRow(data[i].row, data[i].num) IN
         CASE r.kind = "raise" -> [raised |-> TRUE, tasks |-> tasks, log |-> log]
           [] r.kind = "task" -> ProcessTasks(data, i + 1, Append(tasks, r.task), log \o r.log)
           [] r.kind = "none" -> ProcessTasks(data, i + 1, tasks, log \o r.log)

\* a build_timeline that treats validation errors as fatal
BuildTimelineStrict(tasks, today) ==
    IF tasks = <<>> \/ ValidateTimeline(tasks) # <<>>
    THEN [timeline |-> [NoTimeline EXCEPT !.kind = "raise", !.exc = "ValueError"],
          log |-> <<>>]
    ELSE [timeline |-> NewTimeline("models", tasks, today[1], today[2]), log |-> <<>>]

\* TimelineBuilder.build_timeline: [kind, exc, tasks, start_date, end_date, log];
\* the validation errors are logged as a warning and change nothing else
BuildTimeline(tasks, today) ==
    IF tasks = <<>>
    THEN [timeline |-> [NoTimeline EXCEPT !.kind = "raise", !.exc = "ValueError"],
          log |-> <<>>]
    ELSE LET tl == NewTimeline("models", tasks, today[1], today[2]) IN
         [timeline |-> tl,
          log |-> IF tl.kind = "timeline" THEN ValidateTimeline(tl.tasks) ELSE <<>>]

\* DataProcessor.process_csv_to_timeline (data_processor.py)
ProcessCsvToTimeline(rows, today) ==
    LET read == CSVReaderReadCsvData(rows) IN
    IF read.data = <<>>
    THEN Result("data_processor", "ValueError", NoTimeline, read.errors, today)
    ELSE LET p == ProcessTasks(read.data, 1, <<>>, <<>>) IN
         IF p.raised
         THEN Result("data_processor", "AttributeError", NoTimeline,
                     read.errors \o p.log, today)
         ELSE IF p.tasks = <<>>
         THEN Result("data_processor", "ValueError", NoTimeline,
                     read.errors \o p.log, today)
         ELSE LET b == BuildTimeline(p.tasks, today) IN
              Result("data_processor",
                     IF b.timeline.kind = "timeline" THEN "ok" ELSE b.timeline.exc,
                     b.timeline, read.errors \o p.log \o b.log, today)

-----------------------------------------------------------------------------
(* The CSV rows of the model *)

D1 == Dash(2025, 1, 2)
D2 == Dash(2025, 2, 13)

Row(n, id, name, start, due, deps) ==
    [n |-> n, id |-> id, name |-> name, start |-> start, due |-> due,
     category |-> "c", deps |-> deps]

\* rows that every pipeline turns into a Task
GoodRows ==
    { Row(6, "A", "n", D1, D2, ""),  Row(6, "A", "n", D1, D1, "Z"),
      Row(6, "A", "n", D2, D2, "B"), Row(6, "B", "n", D1, D2, ""),
      Row(6, "B", "n", D2, D2, "A"), Row(6, "B", "Draft n", D1, D1, "A,Z") }

\* rows with something wrong, or something unusual, in one place
OddRows ==
    { Row(6, "A", "n", D2, D1, ""),                      \* start after due
      Row(6, "A", "", D1, D2, ""),                       \* empty name
      Row(6, "", "n", D1, D2, ""),                       \* empty id
      Row(6, "A.1", "n", D1, D2, ""),                    \* id with a dot
      Row(6, "A", "n", Dash(2025, 13, 1), D2, ""),       \* no such month
      Row(6, "A", "n", D1, DEmpty, ""),                  \* empty due date
      Row(6, "A", "n", Dash(2019, 1, 2), D2, ""),        \* before 2020
      Row(6, "A", "n", D1, Dash(2031, 1, 2), ""),        \* after 2030
      Row(6, "A", "n", Slash(1, 2, 2025), Slash(2, 13, 2025), ""),
      Row(2, "B", "n", D1, D2, ""),                      \* short: id,name
      Row(4, "B", "n", D1, D2, ""),                      \* short: no category
      Row(5, "B", "n", D1, D2, "") }                     \* short: no dependencies

CsvRows == GoodRows \cup OddRows

\* date.today() at the time of the run
Today == MkDate(2026, 1, 1)

\* start_date/end_date arguments a caller may pass to ProjectTimeline
PassedDates == {MkDate(2024, 1, 1), MkDate(2027, 1, 1)}

NoResult == [pipeline |-> "none", status |-> "none", tasks |-> <<>>,
             start_date |-> NoDate, end_date |-> NoDate, log |-> <<>>,
             passed |-> <<NoDate, NoDate>>]

-----------------------------------------------------------------------------
(* Specification of the CSV pipelines: a file is written row by row, then  *)
(* one of the pipelines is run on it.                                      *)

\* the parts of the state the CSV pipelines do not touch
AppIdle == [variant |-> "none"]
CsvFrame == UNCHANGED <<app, debugVars>>

CsvInit ==
    /\ csv = <<>>
    /\ res = NoResult
    /\ app = AppIdle
    /\ DebugIdle

AddRow ==
    /\ res.pipeline = "none"
    /\ Len(csv) < MaxRows
    /\ \E r \in CsvRows : csv' = Append(csv, r)
    /\ UNCHANGED res
    /\ CsvFrame

\* core.py: DataProcessor().process_csv_to_timeline(file)
RunCore ==
    /\ res.pipeline = "none"
    /\ res' = CoreProcessCsvToTimeline(csv, "core", "core", <<Today, Today>>)
    /\ UNCHANGED csv
    /\ CsvFrame

\* processor.py: DataProcessor().process_csv_to_timeline(file)
RunProcessor ==
    /\ res.pipeline = "none"
    /\ res' = CoreProcessCsvToTimeline(csv, "models", "processor", <<Today, Today>>)
    /\ UNCHANGED csv
    /\ CsvFrame

\* data_processor.py: DataProcessor().process_csv_to_timeline(file)
RunDataProcessor ==
    /\ res.pipeline = "none"
    /\ res' = ProcessCsvToTimeline(csv, <<Today, Today>>)
    /\ UNCHANGED csv
    /\ CsvFrame

\* ProjectTimeline(tasks, title, start_date, end_date) called directly on the
\* Task objects made from the rows (possibly none), with any dates passed
Construct ==
    /\ res.pipeline = "none"
    /\ \E cls \in {"core", "models"}, s \in PassedDates, e \in PassedDates :
         LET tasks == CoreReadCsvData(csv, 1, <<>>, <<>>, cls).tasks
             tl == NewTimeline(cls, tasks, s, e)
         IN res' = Result("constructor:" \o cls,
                          IF tl.kind = "timeline" THEN "ok" ELSE tl.exc,
                          tl, <<>>, <<s, e>>)
    /\ UNCHANGED csv
    /\ CsvFrame

CsvNext == AddRow \/ RunCore \/ RunProcessor \/ RunDataProcessor \/ Construct

SpecCsv == CsvInit /\ [][CsvNext]_vars

-----------------------------------------------------------------------------
(* Properties of the CSV pipelines *)

Pipelines == {"core", "processor", "data_processor"}
Constructors == {"constructor:core", "constructor:models"}

\* the run of a pipeline on a file
RunOf(pipeline, rows) ==
    CASE pipeline = "core" -> CoreProcessCsvToTimeline(rows, "core", "core", <<Today, Today>>)
      [] pipeline = "processor" ->
            CoreProcessCsvToTimeline(rows, "models", "processor", <<Today, Today>>)
      [] pipeline = "data_processor" -> ProcessCsvToTimeline(rows, <<Today, Today>>)

\* a row is valid for a pipeline when the file holding that row alone is
\* turned into a timeline
ValidRow(pipeline, row) == RunOf(pipeline, <<row>>).status = "ok"

\* the Tasks of the valid rows, in the order of the file
RECURSIVE TasksOfValidRows(_, _, _)
TasksOfValidRows(pipeline, rows, i) ==
    IF i > Len(rows) THEN <<>>
    ELSE (IF ValidRow(pipeline, rows[i]) THEN RunOf(pipeline, <<rows[i]>>).tasks ELSE <<>>)
         \o TasksOfValidRows(pipeline, rows, i + 1)

\* the two dates of a row as core.py reads them
RowStart(row) == CoreParseDate(GetDate(row, "start"))
RowDue(row) == CoreParseDate(GetDate(row, "due"))

\* C1: every Task has start_date <= due_date: constructing a Task of either
\* class with start_date after due_date raises ValueError, and no timeline a
\* pipeline or a constructor call yields holds a task that starts after it
\* is due.
C1_StartNotAfterDue ==
    /\ \A i \in 1..Len(res.tasks) : res.tasks[i].start_date <= res.tasks[i].due_date
    /\ \A i \in 1..Len(csv) : \A cls \in {"core", "models"} :
         (RowStart(csv[i]) # NoDate /\ RowDue(csv[i]) # NoDate
            /\ RowStart(csv[i]) > RowDue(csv[i]))
         => NewTask(cls, "A", "n", RowStart(csv[i]), RowDue(csv[i]), "c", "")
              = Raise("ValueError")

\* C1 witness: core.py has run on a file with a row whose start is after its
\* due date and with a good row, and has made a timeline of the good row only
C1_Witness ==
    /\ res.pipeline = "core" /\ res.status = "ok"
    /\ Len(res.tasks) = 1 /\ Len(csv) = 2
    /\ \E i \in 1..Len(csv) :
         RowDue(csv[i]) # NoDate /\ RowStart(csv[i]) > RowDue(csv[i])

\* C2: a timeline's start_date is the least start_date of its tasks and its
\* end_date the greatest due_date, whatever dates were passed; a timeline of
\* no task is refused with ValueError.
C2_RangeFromTasks ==
    /\ res.status = "ok" =>
         /\ res.tasks # <<>>
         /\ \A i \in 1..Len(res.tasks) :
               /\ res.start_date <= res.tasks[i].start_date
               /\ res.end_date >= res.tasks[i].due_date
         /\ \E i \in 1..Len(res.tasks) : res.start_date = res.tasks[i].start_date
         /\ \E i \in 1..Len(res.tasks) : res.end_date = res.tasks[i].due_date
    /\ (res.pipeline \in Constructors /\ res.tasks = <<>>) => res.status = "ValueError"

\* C2 witness: a constructor call on two tasks with different dates, given
\* dates that are not the tasks' range
C2_Witness ==
    /\ res.pipeline = "constructor:models" /\ res.status = "ok"
    /\ Len(res.tasks) = 2
    /\ res.tasks[1].start_date > res.tasks[2].start_date
    /\ res.tasks[1].due_date > res.tasks[2].due_date
    /\ res.passed[1] # res.start_date /\ res.passed[2] # res.end_date

\* C3 (as claimed): a row that fails parsing or validation does not fail the
\* run: when at least one row of the file is valid, the run succeeds and the
\* timeline holds the Tasks of exactly the valid rows, in file order.
C3_BadRowsOnlySkipped ==
    res.pipeline \in Pipelines =>
        ((\E i \in 1..Len(csv) : ValidRow(res.pipeline, csv[i]))
           => /\ res.status = "ok"
              /\ res.tasks = TasksOfValidRows(res.pipeline, csv, 1))

\* the ids written in a Dependencies cell
DepIdSet(dependencies) ==
    IF dependencies = "" THEN {}
    ELSE {DepIds(dependencies)[j] : j \in 1..Len(DepIds(dependencies))} \ {""}

CsvIds == {Get(csv[i], "id") : i \in 1..Len(csv)}

\* C5: dependencies are not enforced: when data_processor.py's process_tasks
\* hands Tasks to build_timeline, the timeline is built with all of them,
\* and each dependency on an id that no row of the file has is reported by a
\* logged warning and nothing else.
C5_DanglingDependencyWarns ==
    res.pipeline = "data_processor" =>
        LET p == ProcessTasks(CSVReaderReadCsvData(csv).data, 1, <<>>, <<>>) IN
        (~p.raised /\ p.tasks # <<>>) =>
            /\ res.status = "ok"
            /\ res.tasks = p.tasks
            /\ \A k \in 1..Len(p.tasks) :
                 \A d \in DepIdSet(p.tasks[k].dependencies) \ CsvIds :
                    \E w \in 1..Len(res.log) :
                       res.log[w] = Warning("depends on non-existent task ID", k, d)

\* C5 witness: a timeline built by data_processor.py holding a task that
\* depends on an id no row has
C5_Witness ==
    /\ res.pipeline = "data_processor" /\ res.status = "ok"
    /\ \E k \in 1..Len(res.tasks) : "Z" \in DepIdSet(res.tasks[k].dependencies)
    /\ "Z" \notin CsvIds

-----------------------------------------------------------------------------
(* Specification of date parsing: a file of one row, otherwise in order,   *)
(* whose two dates are written in every way the parsers distinguish.       *)

DateStrs ==
    { Dash(2025, 1, 2), Dash(2025, 2, 13), Dash(2024, 2, 29), Dash(2025, 2, 30),
      Slash(2, 13, 2025), Slash(13, 2, 2025), Slash(1, 2, 2025),
      Long(2, 13, 2025), Abbr(2, 13, 2025), Long(5, 3, 2025), Abbr(5, 3, 2025),
      DEmpty }

AddDateRow ==
    /\ res.pipeline = "none"
    /\ csv = <<>>
    /\ \E s \in DateStrs, d \in DateStrs : csv' = <<Row(6, "A", "n", s, d, "")>>
    /\ UNCHANGED res
    /\ CsvFrame

DatesNext == AddDateRow \/ RunCore \/ RunProcessor \/ RunDataProcessor

SpecDates == CsvInit /\ [][DatesNext]_vars

\* the formats the date parsing is said to fall back on
FallbackFormats == {"%Y-%m-%d", "%m/%d/%Y", "%d/%m/%Y", "%B %d, %Y"}

\* C6 (as claimed): a row whose Start Date and Due Date are written in a
\* supported format, and name dates that a Task accepts, is ingested by
\* process_csv_to_timeline as a Task carrying those calendar dates.
C6_FallbackFormatsIngested ==
    (res.pipeline \in Pipelines /\ Len(csv) = 1) =>
        \A fs \in FallbackFormats, fd \in FallbackFormats :
            LET start_date == StrpTime(csv[1].start, fs)
                due_date == StrpTime(csv[1].due, fd)
            IN (/\ start_date # NoDate /\ due_date # NoDate
                /\ start_date <= due_date
                /\ start_date >= MinStartDate /\ due_date <= MaxDueDate)
               => /\ res.status = "ok"
                  /\ Len(res.tasks) = 1
                  /\ res.tasks[1].start_date = start_date
                  /\ res.tasks[1].due_date = due_date

-----------------------------------------------------------------------------
(* Application (app.py and core.py).  The environment of one invocation:   *)
(*   input_ok   validate_input_file finds the CSV file and can read it     *)
(*   outdir     the output directory exists / can be made / cannot         *)
(*   title_ok   --title is not blank                                       *)
(*   gen        the LaTeX generator returns a document / raises            *)
(*   write      open(output_file, 'w') and write succeed / raise           *)
(*   interrupt  where the user presses Ctrl-C (KeyboardInterrupt), if ever *)
(*   handler    app.py only: handle_application_error returns / raises     *)

Environments ==
    [input_ok : BOOLEAN, outdir : {"exists", "creatable", "uncreatable"},
     title_ok : BOOLEAN, gen : {"ok", "raises"}, write : {"ok", "raises"},
     interrupt : {"none", "validate", "generate"}, handler : {"returns", "raises"}]

\* Application.validate_arguments: is_valid
ValidateArguments(env) ==
    /\ env.input_ok
    /\ env.outdir # "uncreatable"
    /\ env.title_ok

\* the outcome of a call: what it returned or the exception it let out,
\* whether the .tex file was written, how many debug sessions it opened
Outcome(r, written, sessions) == [ret |-> r, written |-> written, sessions |-> sessions]

\* app.py Application.generate_latex_file: True, False, or KeyboardInterrupt
\* (which "except Exception" does not catch)
AppGenerateLatexFile(env, rows) ==
    IF env.interrupt = "generate" THEN Outcome("KeyboardInterrupt", FALSE, 0)
    ELSE IF \/ ProcessCsvToTimeline(rows, <<Today, Today>>).status # "ok"
            \/ env.gen = "raises"
            \/ env.write = "raises"
    THEN \* handle_application_error opens a debug session; whatever it
         \* raises is caught and logged
         Outcome("False", FALSE, IF env.handler = "returns" THEN 1 ELSE 0)
    ELSE Outcome("True", TRUE, 0)

\* core.py Application.generate_latex_file
CoreGenerateLatexFile(env, rows) ==
    IF env.interrupt = "generate" THEN Outcome("KeyboardInterrupt", FALSE, 0)
    ELSE IF \/ CoreProcessCsvToTimeline(rows, "core", "core", <<Today, Today>>).status # "ok"
            \/ env.gen = "raises"
            \/ env.write = "raises"
    THEN Outcome("False", FALSE, 0)
    ELSE Outcome("True", TRUE, 0)

\* app.py line 165, the argument of the last print of run():
\*   len(task_processor.process_tasks(csv_reader.read_csv_data(args.input)))
\* read_csv_data returns the pair (data, errors); process_tasks iterates over
\* the pair and process_csv_row -> validate_csv_row calls .get on its first
\* element, a list: AttributeError, whatever the file holds.
TaskCountLine(rows) == "AttributeError"

Finished(variant, code, g, valid, interrupted) ==
    [variant |-> variant, exit_code |-> code, written |-> g.written,
     generated |-> (g.ret = "True"), valid_args |-> valid,
     interrupted |-> interrupted, escaped |-> FALSE, sessions |-> g.sessions]

NotGenerated == Outcome("", FALSE, 0)

\* app.py Application.run, given what generate_latex_file does (g) and what
\* evaluating the argument of the last print does (count)
AppRunFrom(env, g, count) ==
    IF env.interrupt = "validate"
    THEN Finished("app.py", 130, NotGenerated, FALSE, TRUE)
    ELSE IF ~ValidateArguments(env)
    THEN Finished("app.py", 1, NotGenerated, FALSE, FALSE)
    ELSE CASE g.ret = "KeyboardInterrupt" -> Finished("app.py", 130, g, TRUE, TRUE)
           [] g.ret = "False" -> Finished("app.py", 1, g, TRUE, FALSE)
           [] g.ret = "True" ->
                IF count = "AttributeError"
                THEN Finished("app.py", 1, g, TRUE, FALSE)   \* except Exception: return 1
                ELSE Finished("app.py", 0, g, TRUE, FALSE)

AppRun(env, rows) == AppRunFrom(env, AppGenerateLatexFile(env, rows), TaskCountLine(rows))

\* core.py Application.run, given what generate_latex_file does (g)
CoreRunFrom(env, g) ==
    IF env.interrupt = "validate"
    THEN Finished("core.py", 130, NotGenerated, FALSE, TRUE)
    ELSE IF ~ValidateArguments(env)
    THEN Finished("core.py", 1, NotGenerated, FALSE, FALSE)
    ELSE CASE g.ret = "KeyboardInterrupt" -> Finished("core.py", 130, g, TRUE, TRUE)
           [] g.ret = "False" -> Finished("core.py", 1, g, TRUE, FALSE)
           [] g.ret = "True" -> Finished("core.py", 0, g, TRUE, FALSE)

CoreRun(env, rows) == CoreRunFrom(env, CoreGenerateLatexFile(env, rows))

\* the CSV files the application is run on
AppFiles ==
    { <<>>,
      <<Row(6, "A", "n", D1, D2, "")>>,
      <<Row(6, "A", "n", D2, D1, ""), Row(6, "B", "n", D1, D2, "A")>>,
      <<Row(4, "B", "n", D1, D2, "")>> }

AppInit ==
    /\ csv \in AppFiles
    /\ res = NoResult
    /\ \E env \in Environments : app = [variant |-> "none", env |-> env]
    /\ DebugIdle

\* python main.py app ... (app.py)
RunApp ==
    /\ app.variant = "none"
    /\ app' = AppRun(app.env, csv) @@ [env |-> app.env]
    /\ UNCHANGED <<csv, res, debugVars>>

\* core.py's main()
RunCoreApp ==
    /\ app.variant = "none"
    /\ app' = CoreRun(app.env, csv) @@ [env |-> app.env]
    /\ UNCHANGED <<csv, res, debugVars>>

AppNext == RunApp \/ RunCoreApp

SpecApp == AppInit /\ [][AppNext]_vars

\* C4 (as claimed): Application.run lets no exception out and returns 0 when
\* the LaTeX file was generated and written, 1 when argument validation or
\* generation fails, and 130 on KeyboardInterrupt.
C4_ExitCodes ==
    app.variant # "none" =>
        /\ ~app.escaped
        /\ app.interrupted => app.exit_code = 130
        /\ (~app.interrupted /\ app.generated /\ app.written) => app.exit_code = 0
        /\ (~app.interrupted /\ ~(app.valid_args /\ app.generated)) => app.exit_code = 1

-----------------------------------------------------------------------------
(* AdHocDebugger.assess_issue_complexity (debug_system.py).                *)
(* A text is the sequence of its lower-cased words; "indicator in text" is *)
(* the occurrence of the indicator's words, in a row, in the text.         *)

MaxPhrases == 2

complexity_indicators ==
    << \* Simple issue indicators
       <<"syntax", "error">>, <<"import", "error">>, <<"typo">>, <<"missing", "file">>,
       <<"configuration", "error">>, <<"permission", "denied">>, <<"file", "not", "found">>,
       \* Complex issue indicators
       <<"race", "condition">>, <<"memory", "leak">>, <<"deadlock">>,
       <<"performance", "issue">>, <<"integration", "error">>, <<"data", "corruption">>,
       <<"concurrent", "access">>, <<"distributed", "system">>, <<"network", "timeout">>,
       <<"database", "deadlock">> >>

\* indicator in text
In(indicator, text) ==
    \E i \in 1..(Len(text) - Len(indicator) + 1) :
        SubSeq(text, i, i + Len(indicator) - 1) = indicator

\* sum(1 for indicator in indicators if indicator in text)
CountIn(indicators, text) ==
    Cardinality({i \in 1..Len(indicators) : In(indicators[i], text)})

\* complexity_indicators[:6] and complexity_indicators[6:]
UpTo6 == SubSeq(complexity_indicators, 1, 6)
From6 == SubSeq(complexity_indicators, 7, Len(complexity_indicators))

\* f"{issue_lower} {error_text}"
CombinedText(i) == i.description \o i.error_context

Bump(condition) == IF condition THEN 1 ELSE 0

\* the two counts, given the combined text
ComplexityFromText(i, text) ==
    IF CountIn(From6, text)
         + Bump(i.long_description)                       \* len(issue_description) > 200
         + Bump(i.has_context /\ i.long_context)          \* len(str(error_context)) > 1000
         + Bump(In(<<"traceback">>, text) \/ In(<<"stack", "trace">>, text))
       > CountIn(UpTo6, text)
    THEN "COMPLEX" ELSE "SIMPLE"

AssessIssueComplexity(i) == ComplexityFromText(i, CombinedText(i))

\* what the texts of the model are made of
Phrases ==
    {complexity_indicators[i] : i \in 1..Len(complexity_indicators)}
        \cup {<<"traceback">>, <<"stack", "trace">>, <<"error">>}

WrittenPhrases == issue.phrases < MaxPhrases

AssessInit ==
    /\ csv = <<>>
    /\ res = NoResult
    /\ app = AppIdle
    /\ DebugIdle

AssessFrame == UNCHANGED <<csv, res, app, active_sessions, session_history, now, files, db>>

\* the reporter writes some more of the description
Describe ==
    /\ ret.op = "none"
    /\ WrittenPhrases
    /\ \E p \in Phrases :
         issue' = [issue EXCEPT !.description = @ \o p, !.phrases = @ + 1]
    /\ UNCHANGED ret
    /\ AssessFrame

\* a value is put in the error_context dict
AddContext ==
    /\ ret.op = "none"
    /\ WrittenPhrases
    /\ \E p \in Phrases :
         issue' = [issue EXCEPT !.error_context = @ \o p, !.has_context = TRUE,
                                !.phrases = @ + 1]
    /\ UNCHANGED ret
    /\ AssessFrame

\* the description grows beyond 200 characters
LengthenDescription ==
    /\ ret.op = "none"
    /\ ~issue.long_description
    /\ issue' = [issue EXCEPT !.long_description = TRUE]
    /\ UNCHANGED ret
    /\ AssessFrame

\* str(error_context) grows beyond 1000 characters
LengthenContext ==
    /\ ret.op = "none"
    /\ issue.has_context
    /\ ~issue.long_context
    /\ issue' = [issue EXCEPT !.long_context = TRUE]
    /\ UNCHANGED ret
    /\ AssessFrame

Assess ==
    /\ ret.op = "none"
    /\ ret' = [op |-> "assess_issue_complexity", value |-> AssessIssueComplexity(issue)]
    /\ UNCHANGED issue
    /\ AssessFrame

AssessNext == Describe \/ AddContext \/ LengthenDescription \/ LengthenContext \/ Assess

SpecAssess == AssessInit /\ [][AssessNext]_vars

\* the lists as the claim and the comments in the code give them
SimpleIndicators == SubSeq(complexity_indicators, 1, 7)
ComplexIndicators == SubSeq(complexity_indicators, 8, 17)

\* C7 (as claimed): a text of at most 200 characters, with an error context
\* under 1000 characters and no 'traceback' or 'stack trace', that contains a
\* keyword of the simple-indicator list and none of the complex-indicator
\* list is assessed SIMPLE.
C7_SimpleKeywordsAssessSimple ==
    ( /\ ret.op = "assess_issue_complexity"
      /\ ~issue.long_description
      /\ ~issue.long_context
      /\ ~In(<<"traceback">>, CombinedText(issue))
      /\ ~In(<<"stack", "trace">>, CombinedText(issue))
      /\ CountIn(SimpleIndicators, CombinedText(issue)) >= 1
      /\ CountIn(ComplexIndicators, CombinedText(issue)) = 0 )
    => ret.value = "SIMPLE"

-----------------------------------------------------------------------------
(* Debug sessions (debug_system.py).  Enum members are written in capitals *)
(* (IssueComplexity.SIMPLE is "SIMPLE", its value "simple"); an optional   *)
(* string that is absent is None.                                          *)

max_local_attempts == 2

MaxSessions == 2
MaxSolutions == 1
MaxTime == 1

\* f[k] = v
Put(f, k, v) == [x \in DOMAIN f \cup {k} |-> IF x = k THEN v ELSE f[x]]

\* a string with a lone surrogate, which UTF-8 cannot encode
Unencodable == "fix U+D800"
Encodable(str) == str # Unencodable

\* DebugAttempt(...)
DebugAttempt(attempt_id, timestamp, description, success, error_message, solution) ==
    [attempt_id |-> attempt_id, timestamp |-> timestamp, description |-> description,
     success |-> success, error_message |-> error_message, solution |-> solution]

\* DebugSession(...), the optional fields at their defaults
DebugSession(session_id, issue_id, title, description, complexity, status, created_at, updated_at, attempts) ==
    [session_id |-> session_id, issue_id |-> issue_id, title |-> title,
     description |-> description, complexity |-> complexity, status |-> status,
     created_at |-> created_at, updated_at |-> updated_at, attempts |-> attempts,
     delegation_prompt |-> None, ad_hoc_session_id |-> None,
     final_solution |-> None, escalation_reason |-> None]

\* str(uuid.uuid4()): an identifier nothing else has
SessionUuid(history) == Len(history) + 1
AttemptUuid(session) == <<session.session_id, Len(session.attempts) + 1>>
PromptUuid(session) ==
    "prompt-" \o ToString(session.session_id) \o "-" \o ToString(Len(session.attempts))

\* AdHocDebugger.create_debug_session: the new session
CreateDebugSession(history, i, t) ==
    DebugSession(SessionUuid(history), i.issue_id, i.title, i.text.description,
                 AssessIssueComplexity(i.text), "PENDING", t, t, <<>>)

\* the attempt that attempt_local_debug records when debug_function returns
\* (outcome "returns") or raises an Exception (outcome "raises")
LocalAttempt(session, outcome, t) ==
    DebugAttempt(AttemptUuid(session), t,
                 "Local debug attempt " \o ToString(Len(session.attempts) + 1),
                 outcome = "returns",
                 IF outcome = "returns" THEN None ELSE "debug_function failed",
                 IF outcome = "returns" THEN "Debug function completed successfully"
                                        ELSE None)

\* is the limit of attempts reached?
NoLimit(session) == FALSE

AttemptsExceeded(session) == Len(session.attempts) >= max_local_attempts

\* AdHocDebugger.attempt_local_debug: [exc, success, sessions]
AttemptLocalDebug(sessions, session_id, outcome, t) ==
    IF session_id \notin DOMAIN sessions
    THEN [exc |-> "ValueError", success |-> FALSE, sessions |-> sessions]
    ELSE IF AttemptsExceeded(sessions[session_id])
    THEN [exc |-> "ValueError", success |-> FALSE, sessions |-> sessions]
    ELSE [exc |-> None,
          success |-> (outcome = "returns"),
          sessions |->
            [sessions EXCEPT ![session_id] =
                [@ EXCEPT !.attempts = Append(@, LocalAttempt(sessions[session_id], outcome, t)),
                          !.updated_at = t,
                          !.status =
                              IF /\ outcome # "returns"
                                 /\ Len(sessions[session_id].attempts) + 1 >= max_local_attempts
                              THEN "ESCALATED" ELSE @]]]

\* the DelegationPrompt generate_delegation_prompt builds
DelegationPrompt(session, t) ==
    [prompt_id |-> PromptUuid(session), session_id |-> session.session_id,
     issue_context |-> [issue_id |-> session.issue_id, title |-> session.title,
                        description |-> session.description,
                        complexity |-> session.complexity,
                        created |-> session.created_at, attempts |-> session.attempts],
     specific_instructions |->
        IF session.complexity = "COMPLEX"
        THEN "This is a complex issue requiring deep analysis."
        ELSE "This is a simple issue that has persisted through local attempts.",
     created_at |-> t]

\* AdHocDebugger.generate_delegation_prompt (session_id is in sessions):
\* the sessions afterwards
GenerateDelegationPrompt(sessions, session_id, t) ==
    [sessions EXCEPT ![session_id] =
        [@ EXCEPT !.delegation_prompt = PromptUuid(sessions[session_id]),
                  !.status = "IN_PROGRESS",
                  !.updated_at = t]]

\* AdHocDebugger.format_delegation_prompt_for_ai: the text, told apart by
\* its instructions
FormatDelegationPromptForAi(prompt) ==
    IF prompt.specific_instructions = "This is a complex issue requiring deep analysis."
    THEN "# Ad-Hoc Debug Session - Delegation Prompt ... complex issue ..."
    ELSE "# Ad-Hoc Debug Session - Delegation Prompt ... simple issue ..."

-----------------------------------------------------------------------------
(* Persistence: AdHocDebugger.save_session / load_session (the JSON file)  *)
(* and SessionManager.save_session / load_session (SQLite, then the file). *)

\* every string json.dump / sqlite3 has to encode
SessionEncodable(session) ==
    /\ Encodable(session.title)
    /\ Encodable(session.final_solution)
    /\ \A k \in 1..Len(session.attempts) : Encodable(session.attempts[k].solution)

\* what is left of a file when the write stops half-way
Truncated == [truncated |-> TRUE]

\* AdHocDebugger.save_session: [exc, files]
SaveSessionFile(fs, session) ==
    IF SessionEncodable(session)
    THEN [exc |-> None, files |-> Put(fs, session.session_id, session)]
    ELSE [exc |-> "UnicodeEncodeError", files |-> Put(fs, session.session_id, Truncated)]

\* what load_session gives when there is nothing to load
NoSession == [session_id |-> None]

\* AdHocDebugger.load_session
LoadSessionFile(fs, session_id) ==
    IF session_id \notin DOMAIN fs THEN NoSession
    ELSE IF fs[session_id] = Truncated THEN NoSession      \* json.load raises
    ELSE fs[session_id]

\* datetime.isoformat / datetime.fromisoformat; the text of an earlier
\* (naive) time sorts before the text of a later one
Isoformat(t) == [iso |-> t]
FromIsoformat(text) == text.iso

\* Enum.value and Enum(value)
EnumNames == {"SIMPLE", "COMPLEX", "PENDING", "IN_PROGRESS", "RESOLVED", "FAILED", "ESCALATED"}
EnumValue(member) ==
    CASE member = "SIMPLE" -> "simple"   [] member = "COMPLEX" -> "complex"
      [] member = "PENDING" -> "pending" [] member = "IN_PROGRESS" -> "in_progress"
      [] member = "RESOLVED" -> "resolved" [] member = "FAILED" -> "failed"
      [] member = "ESCALATED" -> "escalated"
EnumOf(value) == CHOOSE member \in EnumNames : EnumValue(member) = value

\* how SQLite keeps a bool, and bool(row[3])
SqlBoolean(b) == IF b THEN 1 ELSE 0
PyBool(n) == n # 0

\* the row of the sessions table
SessionRow(session) ==
    [session_id |-> session.session_id, issue_id |-> session.issue_id,
     title |-> session.title, description |-> session.description,
     complexity |-> EnumValue(session.complexity), status |-> EnumValue(session.status),
     created_at |-> Isoformat(session.created_at),
     updated_at |-> Isoformat(session.updated_at),
     delegation_prompt_id |-> session.delegation_prompt,
     ad_hoc_session_id |-> session.ad_hoc_session_id,
     final_solution |-> session.final_solution,
     escalation_reason |-> session.escalation_reason]

\* the rows of the attempts table, in the order they are inserted
AttemptRows(session) ==
    [k \in 1..Len(session.attempts) |->
        [attempt_id |-> session.attempts[k].attempt_id,
         session_id |-> session.session_id,
         timestamp |-> Isoformat(session.attempts[k].timestamp),
         description |-> session.attempts[k].description,
         success |-> SqlBoolean(session.attempts[k].success),
         error_message |-> session.attempts[k].error_message,
         solution |-> session.attempts[k].solution]]

\* attempt_id TEXT PRIMARY KEY: the inserts fail when an id is already in
\* the table (under another session) or comes twice in the list
AttemptIdsClash(table, session) ==
    \/ \E k \in 1..Len(table) :
         /\ table[k].session_id # session.session_id
         /\ \E j \in 1..Len(session.attempts) :
              session.attempts[j].attempt_id = table[k].attempt_id
    \/ \E j, k \in 1..Len(session.attempts) :
         j # k /\ session.attempts[j].attempt_id = session.attempts[k].attempt_id

\* DELETE FROM attempts WHERE session_id = ?
OfOtherSessions(table, session_id) ==
    SelectSeq(table, LAMBDA row : row.session_id # session_id)

\* SessionManager.save_session: [value, db, files]; an exception rolls the
\* transaction back and is answered with False
SessionManagerSaveSession(d, fs, session) ==
    IF ~SessionEncodable(session) \/ AttemptIdsClash(d.attempts, session)
    THEN [value |-> FALSE, db |-> d, files |-> fs]
    ELSE [value |-> TRUE,
          db |-> [sessions |-> Put(d.sessions, session.session_id, SessionRow(session)),
                  attempts |-> OfOtherSessions(d.attempts, session.session_id)
                                  \o AttemptRows(session)],
          files |-> Put(fs, session.session_id, session)]

\* ORDER BY timestamp: rows with equal timestamps stay in table order
RECURSIVE InsertByTimestamp(_, _)
InsertByTimestamp(sorted, row) ==
    IF sorted = <<>> THEN <<row>>
    ELSE IF sorted[Len(sorted)].timestamp.iso <= row.timestamp.iso
    THEN Append(sorted, row)
    ELSE Append(InsertByTimestamp(SubSeq(sorted, 1, Len(sorted) - 1), row),
                sorted[Len(sorted)])

RECURSIVE OrderByTimestamp(_)
OrderByTimestamp(rows) ==
    IF rows = <<>> THEN <<>>
    ELSE InsertByTimestamp(OrderByTimestamp(SubSeq(rows, 1, Len(rows) - 1)),
                           rows[Len(rows)])

\* SELECT ... FROM attempts WHERE session_id = ? ORDER BY timestamp
SelectAttempts(table, session_id) ==
    OrderByTimestamp(SelectSeq(table, LAMBDA row : row.session_id = session_id))

\* the DebugAttempt objects load_session makes of the rows
AttemptsOfRows(rows) ==
    [k \in 1..Len(rows) |->
        DebugAttempt(rows[k].attempt_id, FromIsoformat(rows[k].timestamp),
                     rows[k].description, PyBool(rows[k].success),
                     rows[k].error_message, rows[k].solution)]

\* the DebugSession load_session makes of a row and the attempts
SessionOfRow(row, attempts) ==
    [session_id |-> row.session_id, issue_id |-> row.issue_id, title |-> row.title,
     description |-> row.description, complexity |-> EnumOf(row.complexity),
     status |-> EnumOf(row.status), created_at |-> FromIsoformat(row.created_at),
     updated_at |-> FromIsoformat(row.updated_at), attempts |-> attempts,
     delegation_prompt |-> row.delegation_prompt_id,
     ad_hoc_session_id |-> row.ad_hoc_session_id,
     final_solution |-> row.final_solution,
     escalation_reason |-> row.escalation_reason]

\* SessionManager.load_session
SessionManagerLoadSession(d, session_id) ==
    IF session_id \notin DOMAIN d.sessions THEN NoSession
    ELSE SessionOfRow(d.sessions[session_id],
                      AttemptsOfRows(SelectAttempts(d.attempts, session_id)))

-----------------------------------------------------------------------------
(* DebugWorkflow (debug_system.py) *)

\* debug_function=None, or what each call of debug_function does
NoFunction == <<>>
DebugFunctions ==
    {NoFunction, <<"returns", "returns">>, <<"raises", "returns">>, <<"raises", "raises">>}

\* handle_issue, Step 2: is local debugging tried?
TriesLocalDebugAlways(complexity, debug_function) == debug_function # NoFunction

TriesLocalDebug(complexity, debug_function) ==
    complexity = "SIMPLE" /\ debug_function # NoFunction

\* the loop "for attempt_num in range(max_local_attempts)", from its k-th
\* round on: [resolved_in, sessions], resolved_in = 0 when no attempt succeeded
RECURSIVE LocalDebugLoop(_, _, _, _, _)
LocalDebugRound(a, session_id, debug_function, k, t) ==
    IF a.exc = None /\ a.success
    THEN [resolved_in |-> k, sessions |-> a.sessions]
    ELSE LocalDebugLoop(a.sessions, session_id, debug_function, k + 1, t)

LocalDebugLoop(sessions, session_id, debug_function, k, t) ==
    IF k > max_local_attempts
    THEN [resolved_in |-> 0, sessions |-> sessions]
    ELSE LocalDebugRound(AttemptLocalDebug(sessions, session_id, debug_function[k], t),
                         session_id, debug_function, k, t)

\* handle_issue, Step 3 and the return statements: [value, sessions]
HandleIssueReturn(tried, session_id, t) ==
    IF tried.resolved_in > 0
    THEN [value |-> <<TRUE,
                      "Issue resolved in local attempt " \o ToString(tried.resolved_in),
                      None>>,
          sessions |-> tried.sessions]
    ELSE [value |-> <<FALSE,
                      "Issue requires Ad-Hoc debugging session",
                      FormatDelegationPromptForAi(
                          DelegationPrompt(tried.sessions[session_id], t))>>,
          sessions |-> GenerateDelegationPrompt(tried.sessions, session_id, t)]

\* DebugWorkflow.handle_issue, the session of Step 1 being in sessions
HandleIssueSession(sessions, session, debug_function, t) ==
    HandleIssueReturn(
        IF TriesLocalDebug(session.complexity, debug_function)
        THEN LocalDebugLoop(sessions, session.session_id, debug_function, 1, t)
        ELSE [resolved_in |-> 0, sessions |-> sessions],
        session.session_id, t)

\* the session integrate_solution leaves in memory
Integrated(session, solution_findings, ad_hoc_session_id, t) ==
    [session EXCEPT
        !.attempts = Append(@, DebugAttempt(AttemptUuid(session), t,
                                            "Ad-Hoc agent solution integration",
                                            TRUE, None, solution_findings)),
        !.final_solution = solution_findings,
        !.ad_hoc_session_id = ad_hoc_session_id,
        !.status = "RESOLVED",
        !.updated_at = t]

\* integrate_solution after the session file is written (or not): the save
\* to the database is tried, and its failure only logged
IntegrateSolutionSaved(sessions, wrote, d, session) ==
    IF wrote.exc # None
    THEN [exc |-> wrote.exc, value |-> FALSE, sessions |-> sessions,
          files |-> wrote.files, db |-> d]
    ELSE [exc |-> None, value |-> TRUE, sessions |-> sessions,
          files |-> SessionManagerSaveSession(d, wrote.files, session).files,
          db |-> SessionManagerSaveSession(d, wrote.files, session).db]

IntegrateSolutionOf(sessions, fs, d, session) ==
    IntegrateSolutionSaved(Put(sessions, session.session_id, session),
                           SaveSessionFile(fs, session), d, session)

\* AdHocDebugger.integrate_solution: [exc, value, sessions, files, db]
IntegrateSolution(sessions, fs, d, session_id, solution_findings, t) ==
    IF session_id \notin DOMAIN sessions
    THEN [exc |-> None, value |-> FALSE, sessions |-> sessions, files |-> fs, db |-> d]
    ELSE IntegrateSolutionOf(sessions, fs, d,
                             Integrated(sessions[session_id], solution_findings, None, t))

\* the issues reported in the model
IssueOf(issue_id, title, words) ==
    [issue_id |-> issue_id, title |-> title,
     text |-> [NoIssue EXCEPT !.description = words]]

DebugIssues ==
    { IssueOf("test_issue_001", "Configuration Error",
              <<"configuration", "file", "not", "found">>),
      IssueOf("issue_typo", "Typo", <<"typo">>),
      IssueOf("issue_deadlock", "Deadlock", <<"deadlock">>) }

Findings == {"Root cause analysis and fix", Unencodable}

SessionIds == 1..MaxSessions

\* how many solutions have been integrated into a session
Solutions(session) ==
    Cardinality({k \in 1..Len(session.attempts) :
                    session.attempts[k].description = "Ad-Hoc agent solution integration"})

DebugInit ==
    /\ csv = <<>>
    /\ res = NoResult
    /\ app = AppIdle
    /\ DebugIdle

DebugFrame == UNCHANGED <<csv, res, app, issue>>

\* DebugWorkflow.handle_issue(issue_id, title, description, None, debug_function)
HandleIssueWith(session, debug_function, handled) ==
    /\ active_sessions' = handled.sessions
    /\ session_history' = Append(session_history, session.session_id)
    /\ ret' = [op |-> "handle_issue", session_id |-> session.session_id,
               complexity |-> session.complexity, debug_function |-> debug_function,
               value |-> handled.value]

HandleIssueAs(session, debug_function) ==
    HandleIssueWith(session, debug_function,
                    HandleIssueSession(Put(active_sessions, session.session_id, session),
                                       session, debug_function, now))

HandleIssue ==
    /\ Len(session_history) < MaxSessions
    /\ \E i \in DebugIssues, debug_function \in DebugFunctions :
         HandleIssueAs(CreateDebugSession(session_history, i, now), debug_function)
    /\ UNCHANGED <<now, files, db>>
    /\ DebugFrame

\* DebugWorkflow.complete_workflow(session_id, solution_findings)
CompleteWorkflowWith(session_id, solution_findings, done) ==
    /\ active_sessions' = done.sessions
    /\ files' = done.files
    /\ db' = done.db
    /\ ret' = [op |-> "complete_workflow", session_id |-> session_id,
               solution_findings |-> solution_findings,
               known |-> session_id \in DOMAIN active_sessions,
               exc |-> done.exc, value |-> done.value,
               changed |-> done.sessions # active_sessions]

CompleteWorkflow ==
    /\ \E session_id \in SessionIds, solution_findings \in Findings :
         /\ session_id \in DOMAIN active_sessions
               => Solutions(active_sessions[session_id]) < MaxSolutions
         /\ CompleteWorkflowWith(session_id, solution_findings,
                                 IntegrateSolution(active_sessions, files, db, session_id,
                                                   solution_findings, now))
    /\ UNCHANGED <<now, session_history>>
    /\ DebugFrame

DebugNext == HandleIssue \/ CompleteWorkflow

SpecDebug == DebugInit /\ [][DebugNext]_vars

-----------------------------------------------------------------------------
(* Properties of DebugWorkflow *)

\* the session the last handle_issue made
HandledSession == active_sessions[ret.session_id]

SomeAttemptSucceeded(session) ==
    \E k \in 1..Len(session.attempts) : session.attempts[k].success

\* C8: handle_issue returns (True, message, None) exactly when a local debug
\* attempt succeeded, which takes an issue assessed SIMPLE, a debug_function,
\* and a call of it (among the max_local_attempts calls) that returns; in
\* every other case it returns (False, message, prompt), the prompt not empty.
C8_HandleIssueReturn ==
    ret.op = "handle_issue" =>
        /\ ret.value[1] \in BOOLEAN
        /\ ret.value[1] <=> SomeAttemptSucceeded(HandledSession)
        /\ ret.value[1] <=>
              /\ ret.complexity = "SIMPLE"
              /\ ret.debug_function # NoFunction
              /\ \E k \in 1..max_local_attempts : ret.debug_function[k] = "returns"
        /\ ret.value[1] => ret.value[3] = None
        /\ ~ret.value[1] => (ret.value[3] # None /\ ret.value[3] # "")

\* a simple issue whose first local attempt fails and whose second succeeds
C8_Witness ==
    /\ ret.op = "handle_issue"
    /\ ret.value[1]
    /\ ret.value[3] = None
    /\ Len(HandledSession.attempts) = max_local_attempts
    /\ ~HandledSession.attempts[1].success

\* C9 (as claimed): for a session in active_sessions, complete_workflow
\* returns True and leaves the session RESOLVED with final_solution the
\* findings; for any other session_id it returns False and changes no session.
C9_CompleteWorkflow ==
    ret.op = "complete_workflow" =>
        IF ret.known
        THEN /\ ret.exc = None
             /\ ret.value = TRUE
             /\ active_sessions[ret.session_id].status = "RESOLVED"
             /\ active_sessions[ret.session_id].final_solution = ret.solution_findings
        ELSE /\ ret.exc = None
             /\ ret.value = FALSE
             /\ ~ret.changed

-----------------------------------------------------------------------------
(* SessionManager (session_manager.py): sessions the caller has built, as  *)
(* main() of session_manager.py does, are saved and loaded.                *)

MaxStoredAttempts == 2

Times == 0..MaxTime

\* the timestamps of the attempts of a session
TimeLists == UNION {[1..n -> Times] : n \in 0..MaxStoredAttempts}

CallerAttempts(session_id, times) ==
    [k \in 1..Len(times) |->
        DebugAttempt(<<session_id, k>>, times[k], "Test debug attempt", TRUE, None,
                     "Test solution")]

CallerSession(session_id, title, resolved, times) ==
    [DebugSession(session_id, "test_issue_001", title, <<"test", "session">>, "SIMPLE",
                  IF resolved THEN "RESOLVED" ELSE "PENDING", 0, MaxTime,
                  CallerAttempts(session_id, times))
        EXCEPT !.final_solution = IF resolved THEN "Test solution" ELSE None]

CallerSessions ==
    {CallerSession(session_id, title, resolved, times) :
        session_id \in SessionIds, title \in {"Test Session", Unencodable},
        resolved \in BOOLEAN, times \in TimeLists}

StoreInit ==
    /\ csv = <<>>
    /\ res = NoResult
    /\ app = AppIdle
    /\ DebugIdle

StoreFrame == UNCHANGED <<csv, res, app, issue, active_sessions, session_history, now>>

SaveSessionAs(session, saved) ==
    /\ db' = saved.db
    /\ files' = saved.files
    /\ ret' = [op |-> "save_session", session |-> session, value |-> saved.value]

\* session_manager.save_session(session)
SaveSession ==
    /\ \E session \in CallerSessions :
         SaveSessionAs(session, SessionManagerSaveSession(db, files, session))
    /\ StoreFrame

\* session_manager.load_session(session_id)
LoadSession ==
    /\ \E session_id \in SessionIds :
         ret' = [op |-> "load_session", session_id |-> session_id,
                 value |-> SessionManagerLoadSession(db, session_id)]
    /\ UNCHANGED <<db, files>>
    /\ StoreFrame

StoreNext == SaveSession \/ LoadSession

SpecStore == StoreInit /\ [][StoreNext]_vars

\* the fields the round trip is claimed for
SameSession(a, b) ==
    /\ a # NoSession
    /\ b # NoSession
    /\ a.session_id = b.session_id
    /\ a.issue_id = b.issue_id
    /\ a.title = b.title
    /\ a.description = b.description
    /\ a.complexity = b.complexity
    /\ a.status = b.status
    /\ a.created_at = b.created_at
    /\ a.updated_at = b.updated_at
    /\ a.final_solution = b.final_solution
    /\ a.escalation_reason = b.escalation_reason
    /\ a.attempts = b.attempts

\* C10 (as claimed): once save_session(s) has returned True, load_session of
\* its id gives a session with the same fields and the same attempts in the
\* same order; load_session of an id never saved gives None.
C10_SaveLoadRoundTrip ==
    /\ (ret.op = "save_session" /\ ret.value)
          => SameSession(SessionManagerLoadSession(db, ret.session.session_id), ret.session)
    /\ (ret.op = "load_session" /\ ret.session_id \notin DOMAIN db.sessions)
          => ret.value = NoSession

-----------------------------------------------------------------------------
(* DebugCLI (debug_cli.py): the "handle" command.  The CLI owns a          *)
(* DebugWorkflow, whose debugger holds active_sessions, and a              *)
(* SessionManager, which holds the database.                               *)

\* --error-context: absent, a JSON object, text that is not JSON, a JSON list
ErrorContexts == {"absent", "object", "invalid", "list"}

\* the issue with the error context json.loads made of the argument
WithErrorContext(i, error_context) ==
    IF error_context = "object"
    THEN [i EXCEPT !.text.error_context = <<"traceback">>, !.text.has_context = TRUE]
    ELSE i

\* the issues given on the command line; an issue id may hold a "/"
CliIssues == DebugIssues \cup {IssueOf("a/b", "Typo", <<"typo">>)}

\* list(self.workflow.debugger.active_sessions.keys())[0]
FirstKey(history) == history[1]

\* open(workspace_root / f"delegation_prompt_{issue_id}.md", 'w'): the
\* exception it raises, if any
OpenPromptFile(issue_id) == IF issue_id = "a/b" THEN "FileNotFoundError" ELSE None

\* return 0 if success else 2, with every exit code 0
CliExitCodeZero(success) == 0

\* return 0 if success else 2
CliExitCode(success) == IF success THEN 0 ELSE 2

\* what the call leaves when it ends in "except Exception": return 1
CliFailed(exc, resolved, prompt, sessions, history, d, fs) ==
    [exit_code |-> 1, exc |-> exc, resolved |-> resolved, prompt |-> prompt,
     prompt_file |-> None, sessions |-> sessions, history |-> history,
     db |-> d, files |-> fs]

\* DebugCLI.handle_issue from "Save the session to database" on, given what
\* workflow.handle_issue returned and what save_session did
CliHandleIssueSaved(i, save_prompt, handled, history, saved) ==
    IF handled.value[3] # None /\ save_prompt /\ OpenPromptFile(i.issue_id) # None
    THEN CliFailed(OpenPromptFile(i.issue_id), handled.value[1], handled.value[3],
                   handled.sessions, history, saved.db, saved.files)
    ELSE [exit_code |-> CliExitCode(handled.value[1]), exc |-> None,
          resolved |-> handled.value[1], prompt |-> handled.value[3],
          prompt_file |-> IF handled.value[3] # None /\ save_prompt
                          THEN handled.value[3] ELSE None,
          sessions |-> handled.sessions, history |-> history,
          db |-> saved.db, files |-> saved.files]

CliHandleIssueHandled(i, save_prompt, handled, history, d, fs) ==
    CliHandleIssueSaved(i, save_prompt, handled, history,
                        SessionManagerSaveSession(d, fs, handled.sessions[FirstKey(history)]))

CliHandleIssueSession(i, save_prompt, sessions, history, d, fs, session, t) ==
    CliHandleIssueHandled(i, save_prompt,
                          HandleIssueSession(Put(sessions, session.session_id, session),
                                             session, NoFunction, t),
                          Append(history, session.session_id), d, fs)

\* DebugCLI.handle_issue(args)
CliHandleIssue(i, error_context, save_prompt, sessions, history, d, fs, t) ==
    IF error_context = "invalid"                 \* json.loads raises
    THEN CliFailed("JSONDecodeError", FALSE, None, sessions, history, d, fs)
    ELSE IF error_context = "list"               \* error_context.values()
    THEN CliFailed("AttributeError", FALSE, None, sessions, history, d, fs)
    ELSE CliHandleIssueSession(i, save_prompt, sessions, history, d, fs,
                               CreateDebugSession(history,
                                                  WithErrorContext(i, error_context), t),
                               t)

CliInit ==
    /\ csv = <<>>
    /\ res = NoResult
    /\ app = AppIdle
    /\ DebugIdle

\* python -m src.debug_cli handle --issue-id ... [--error-context ...] [--save-prompt]
CliHandleWith(i, error_context, save_prompt, done) ==
    /\ active_sessions' = done.sessions
    /\ session_history' = done.history
    /\ db' = done.db
    /\ files' = done.files
    /\ ret' = [op |-> "cli_handle_issue", issue_id |-> i.issue_id,
               error_context |-> error_context, save_prompt |-> save_prompt,
               exit_code |-> done.exit_code, exc |-> done.exc,
               resolved |-> done.resolved, prompt |-> done.prompt,
               prompt_file |-> done.prompt_file,
               created |-> Len(done.history) > Len(session_history)]

CliHandle ==
    /\ Len(session_history) < MaxSessions
    /\ \E i \in CliIssues, error_context \in ErrorContexts, save_prompt \in BOOLEAN :
         CliHandleWith(i, error_context, save_prompt,
                       CliHandleIssue(i, error_context, save_prompt, active_sessions,
                                      session_history, db, files, now))
    /\ UNCHANGED now
    /\ DebugFrame

CliNext == CliHandle

SpecCli == CliInit /\ [][CliNext]_vars

\* C11 as stated: DebugCLI.handle_issue returns 0 exactly when the workflow
\* resolved the issue, 2 exactly when a delegation prompt was produced, and
\* 1 exactly when an exception occurred while handling it.
C11_ExitCodeExactly ==
    ret.op = "cli_handle_issue" =>
        /\ (ret.exit_code = 0) <=> ret.resolved
        /\ (ret.exit_code = 2) <=> (ret.prompt # None)
        /\ (ret.exit_code = 1) <=> (ret.exc # None)

\* C11, amended: DebugCLI.handle_issue returns 1 exactly when an exception
\* occurred while handling the issue, also one raised after the delegation
\* prompt was produced; when none occurred it returns 0 exactly when the
\* workflow resolved the issue and 2 exactly when a delegation prompt was
\* produced, so a return of 2 always comes with a prompt.
C11_ExitCodeUnlessException ==
    ret.op = "cli_handle_issue" =>
        /\ ret.exit_code \in {0, 1, 2}
        /\ (ret.exit_code = 1) <=> (ret.exc # None)
        /\ ret.exc = None =>
              /\ (ret.exit_code = 0) <=> ret.resolved
              /\ (ret.exit_code = 2) <=> (ret.prompt # None /\ ret.prompt # "")
        /\ (ret.exit_code = 2) => (ret.prompt # None /\ ~ret.resolved)

\* a delegation prompt was produced and saved, and the exit code is 2
C11_Witness ==
    /\ ret.op = "cli_handle_issue"
    /\ ret.exit_code = 2
    /\ ret.prompt # None
    /\ ret.prompt_file = ret.prompt
    /\ ret.created

-----------------------------------------------------------------------------
(* Task(...) called with every field given, is_milestone included: the     *)
(* dataclass __init__ stores the arguments, then __post_init__ runs.       *)

\* a __post_init__ that leaves is_milestone as it was passed
KeepMilestone(is_milestone, start_date, due_date) == is_milestone

\* __post_init__, last step: self._determine_milestone() on an object whose
\* is_milestone field holds the value passed
PostInitMilestone(is_milestone, start_date, due_date) ==
    DetermineMilestone(start_date, due_date)

\* Task(id, name, start_date, due_date, category, dependencies, notes, is_milestone)
TaskWithMilestone(made, is_milestone) ==
    IF made.kind # "task" THEN made
    ELSE Made([made.task EXCEPT !.is_milestone =
                  PostInitMilestone(is_milestone, made.task.start_date,
                                    made.task.due_date)])

\* the dates and names tasks are made with
TaskDates == {Dash(2019, 12, 31), D1, D2, Dash(2031, 1, 2)}
TaskNames == {"n", "Draft n", "Milestone: n"}

TaskInit ==
    /\ csv = <<>>
    /\ res = NoResult
    /\ app = AppIdle
    /\ DebugIdle

NewTaskWith(cls, name, start, due, is_milestone, made) ==
    ret' = [op |-> "Task", cls |-> cls, name |-> name, start |-> start, due |-> due,
            is_milestone |-> is_milestone,
            exc |-> IF made.kind = "raise" THEN made.exc ELSE None,
            task |-> made.task]

\* Task(..., is_milestone=...) of models.py or core.py
ConstructTask ==
    /\ \E cls \in {"core", "models"}, name \in TaskNames, start \in TaskDates,
          due \in TaskDates, is_milestone \in BOOLEAN :
         NewTaskWith(cls, name, start, due, is_milestone,
                     TaskWithMilestone(NewTask(cls, "A", name, CoreParseDate(start),
                                               CoreParseDate(due), "c", ""),
                                       is_milestone))
    /\ UNCHANGED <<csv, res, app, issue, active_sessions, session_history, now, files, db>>

TaskNext == ConstructTask

SpecTask == TaskInit /\ [][TaskNext]_vars

\* C12: for every Task, is_milestone is true exactly when start_date equals
\* due_date, whatever is_milestone value was passed to the constructor.
C12_MilestoneIffSameDay ==
    (ret.op = "Task" /\ ret.exc = None) =>
        (ret.task.is_milestone <=> (ret.task.start_date = ret.task.due_date))

\* a Task made with is_milestone=True and different dates: the value passed
\* was overridden
C12_Witness ==
    /\ ret.op = "Task"
    /\ ret.exc = None
    /\ ret.is_milestone
    /\ ret.task.start_date < ret.task.due_date
    /\ ~ret.task.is_milestone

-----------------------------------------------------------------------------
(* Document generation from a ProjectTimeline: the template generators     *)
(* (template_generators.py) and the calendar view (latex_generator.py).    *)
(* A document is the sequence of its sections; a section names its unit    *)
(* (the table, a month, a week) and lists the ids of the tasks shown.      *)

Year(d)  == d \div 10000
Month(d) == (d \div 100) % 100
Day(d)   == d % 100

RECURSIVE DaysBeforeMonth(_, _)
DaysBeforeMonth(yy, mm) ==
    IF mm = 1 THEN 0 ELSE DaysInMonth(yy, mm - 1) + DaysBeforeMonth(yy, mm - 1)

\* the days before January 1st of year yy
DaysBeforeYear(yy) ==
    (yy - 1) * 365 + ((yy - 1) \div 4) - ((yy - 1) \div 100) + ((yy - 1) \div 400)

\* date.toordinal()
ToOrdinal(d) == DaysBeforeYear(Year(d)) + DaysBeforeMonth(Year(d), Month(d)) + Day(d)

\* date.weekday(): Monday is 0
Weekday(d) == (ToOrdinal(d) + 6) % 7

\* Task.overlaps_with_range(start, end)
OverlapsWithRange(task, start, end) ==
    ~(task.due_date < start \/ task.start_date > end)

\* [task.id for task in tasks]: what a section shows of its tasks
Ids(tasks) == [k \in 1..Len(tasks) |-> tasks[k].id]

\* MonthInfo.from_date of the k-th month from start_date's month on
MonthInfo(start_date, k) ==
    LET n  == Year(start_date) * 12 + Month(start_date) - 1 + (k - 1)
        yy == n \div 12
        mm == (n % 12) + 1
    IN [start_date |-> MkDate(yy, mm, 1),
        end_date |-> MkDate(yy, mm, DaysInMonth(yy, mm)),
        first_weekday |-> (Weekday(MkDate(yy, mm, 1)) + 1) % 7,
        num_days |-> DaysInMonth(yy, mm)]

\* ProjectTimeline.get_months_between
GetMonthsBetween(start_date, end_date) ==
    SelectSeq([k \in 1..((Year(end_date) - Year(start_date)) * 12
                            + Month(end_date) - Month(start_date) + 1) |->
                  MonthInfo(start_date, k)],
              LAMBDA m : ~(m.end_date < start_date \/ m.start_date > end_date))

\* ProjectTimeline.get_tasks_for_month: a new list
GetTasksForMonth(tasks, month_info) ==
    SelectSeq(tasks, LAMBDA t : OverlapsWithRange(t, month_info.start_date,
                                                  month_info.end_date))

\* WeeklyPlannerGenerator._get_weeks_between: the Mondays, as ordinals
GetWeeksBetween(start_date, end_date) ==
    [k \in 1..((ToOrdinal(end_date) - (ToOrdinal(start_date) - Weekday(start_date)))
                  \div 7 + 1) |->
        ToOrdinal(start_date) - Weekday(start_date) + 7 * (k - 1)]

\* WeeklyPlannerGenerator._generate_weekly_planner: week_tasks, a new list
WeekTasks(tasks, week_start) ==
    SelectSeq(tasks, LAMBDA t : ~(ToOrdinal(t.due_date) < week_start
                                  \/ ToOrdinal(t.start_date) > week_start + 6))

max_tasks_per_day == 2

\* CalendarGenerator.generate_calendar_grid: per day of the month, the tasks
\* named in its cell (_generate_day_task_text: tasks[:max_tasks_per_day])
GenerateCalendarGrid(month_info, tasks) ==
    [day \in 1..month_info.num_days |->
        LET day_tasks == SelectSeq(tasks, LAMBDA t :
                            /\ t.start_date <= month_info.start_date + (day - 1)
                            /\ month_info.start_date + (day - 1) <= t.due_date)
        IN Ids(SubSeq(day_tasks, 1,
                      IF Len(day_tasks) < max_tasks_per_day THEN Len(day_tasks)
                      ELSE max_tasks_per_day))]

\* CalendarGenerator.generate_month_page
GenerateMonthPage(month_info, month_tasks) ==
    [unit |-> month_info.start_date, tasks |-> Ids(month_tasks),
     grid |-> GenerateCalendarGrid(month_info, month_tasks)]

\* CalendarGenerator.generate_calendar_view: a page per month that has tasks
GenerateCalendarView(tasks, months) ==
    SelectSeq([k \in 1..Len(months) |->
                  GenerateMonthPage(months[k], GetTasksForMonth(tasks, months[k]))],
              LAMBDA page : page.tasks # <<>>)

\* the generators and whether they were given a config_manager
Generators ==
    {"gantt_timeline", "monthly_calendar", "weekly_planner", "calendar_view", "timeline_view"}

\* what a generation gives: the exception it raises, if any, and the document
Generated(exc, doc) == [exc |-> exc, doc |-> doc]

\* BaseTemplateGenerator.generate_document with the generator class of
\* TemplateGeneratorFactory, latex_generator.LaTeXGenerator's
\* generate_complete_document (the calendar view), or core.LaTeXGenerator's
\* generate_document (the timeline view, then the task list)
GenerateDocument(generator, config_manager, tl, weeks) ==
    CASE generator = "calendar_view" ->
            Generated(None, GenerateCalendarView(
                                tl.tasks, GetMonthsBetween(tl.start_date, tl.end_date)))
      [] generator = "timeline_view" ->
            Generated(None, <<[unit |-> 1, tasks |-> Ids(tl.tasks)],
                              [unit |-> 2, tasks |-> Ids(tl.tasks)]>>)
      [] generator \notin {"calendar_view", "timeline_view"} /\ ~config_manager ->
            Generated("AttributeError", <<>>)       \* None.get_combined_config
      [] generator = "gantt_timeline" /\ config_manager ->
            Generated(None, <<[unit |-> 0, tasks |-> Ids(tl.tasks)]>>)
      [] generator = "monthly_calendar" /\ config_manager ->
            Generated("AttributeError", <<>>)       \* month_info.month_name
      [] generator = "weekly_planner" /\ config_manager ->
            Generated(None, [k \in 1..Len(weeks) |->
                                [unit |-> weeks[k],
                                 tasks |-> Ids(WeekTasks(tl.tasks, weeks[k]))]])

\* a generator that keeps in timeline.tasks only the tasks of its last section
TimelineOfLastSection(tl, generated) ==
    IF generated.doc = <<>> THEN tl
    ELSE [tl EXCEPT !.tasks =
            SelectSeq(@, LAMBDA t :
                \E k \in 1..Len(generated.doc[Len(generated.doc)].tasks) :
                    generated.doc[Len(generated.doc)].tasks[k] = t.id)]

\* the timeline object after a generation: the generators read it, build
\* their lists anew (comprehensions, append to a fresh list, slices) and
\* assign to none of its attributes
TimelineAfterGenerate(tl, generated) == tl

\* the CSV files timelines are built from
GenFiles == UNION {[1..n -> GoodRows] : n \in 1..MaxRows}

GenInit ==
    /\ csv \in GenFiles
    /\ res = ProcessCsvToTimeline(csv, <<Today, Today>>)
    /\ app = AppIdle
    /\ DebugIdle

GenerateWith(generator, config_manager, generated, after) ==
    /\ res' = [res EXCEPT !.tasks = after.tasks, !.start_date = after.start_date,
                          !.end_date = after.end_date]
    /\ ret' = [op |-> "generate_document", generator |-> generator,
               config_manager |-> config_manager, exc |-> generated.exc,
               doc |-> generated.doc]

GenerateAs(generator, config_manager, generated) ==
    GenerateWith(generator, config_manager, generated,
                 TimelineAfterGenerate(res, generated))

\* generator.generate_document(timeline) on the timeline built from the file
Generate ==
    /\ res.status = "ok"
    /\ \E generator \in Generators, config_manager \in BOOLEAN :
         GenerateAs(generator, config_manager,
                    GenerateDocument(generator, config_manager, res,
                                     GetWeeksBetween(res.start_date, res.end_date)))
    /\ UNCHANGED <<csv, app, issue, active_sessions, session_history, now, files, db>>

GenNext == Generate

SpecGenerate == GenInit /\ [][GenNext]_vars

-----------------------------------------------------------------------------
(* src/validate_timeline.py: validate_timeline(csv_file) on a readable file. *)
(* A row is [id, deps, start, end]: deps is the Dependencies cell as the     *)
(* list of its comma-separated, stripped entries (<<>> for an empty cell),   *)
(* start and end are the date cells.                                         *)

VtRow(id, deps, start, end) == [id |-> id, deps |-> deps, start |-> start, end |-> end]

\* task_ids as filled by the reading loop
TaskIdsOf(rows) == {rows[i].id : i \in 1..Len(rows)}

LastRowOf(rows, id) == CHOOSE i \in 1..Len(rows) :
    rows[i].id = id /\ \A j \in 1..Len(rows) : rows[j].id = id => j <= i

\* the tasks dict as filled by the reading loop: a later row of the same
\* Task ID replaces the earlier one
TasksOf(rows) == [id \in TaskIdsOf(rows) |-> rows[LastRowOf(rows, id)]]

\* the orders in which "for task_id in task_ids" can walk the set
IterationOrders(task_ids) ==
    {o \in [1..Cardinality(task_ids) -> task_ids] :
        \A i, j \in DOMAIN o : i # j => o[i] # o[j]}

\* Validation 1: ids met a second time while walking task_ids
RECURSIVE Duplicates(_, _, _, _)
Duplicates(order, i, seen_ids, duplicates) ==
    IF i > Len(order) THEN duplicates
    ELSE Duplicates(order, i + 1, seen_ids \cup {order[i]},
                    IF order[i] \in seen_ids THEN Append(duplicates, order[i])
                    ELSE duplicates)

\* Validation 2: the (task, entry) pairs whose entry names no task
MissingDepsOf(tasks, task_ids) ==
    {<<id, k>> \in (DOMAIN tasks) \X (1..MaxRows) :
        /\ k \in DOMAIN tasks[id].deps
        /\ Truthy(tasks[id].deps[k])
        /\ tasks[id].deps[k] \notin task_ids}

InPath(task_id, path) == \E k \in DOMAIN path : path[k] = task_id

\* path.index(task_id)
PathIndex(path, task_id) == CHOOSE k \in DOMAIN path :
    path[k] = task_id /\ \A j \in DOMAIN path : path[j] = task_id => k <= j

\* path.pop()
Pop(path) == SubSeq(path, 1, Len(path) - 1)

Searched(result, visited, path) == [result |-> result, visited |-> visited, path |-> path]

\* has_circular_dependency: result is the cycle found, <<>> for None;
\* visited and path are the caller's set and list as the call leaves them
RECURSIVE HasCircularDependency(_, _, _, _)
RECURSIVE SearchDeps(_, _, _, _, _)
SearchNext(tasks, deps, k, found) ==
    IF found.result # <<>> THEN found
    ELSE SearchDeps(tasks, deps, k + 1, found.visited, found.path)

SearchDeps(tasks, deps, k, visited, path) ==
    IF k > Len(deps) THEN Searched(<<>>, visited, Pop(path))
    ELSE IF ~Truthy(deps[k]) THEN SearchDeps(tasks, deps, k + 1, visited, path)
    ELSE SearchNext(tasks, deps, k, HasCircularDependency(tasks, deps[k], visited, path))

SearchFrom(tasks, task_id, visited, path) ==
    IF task_id \notin DOMAIN tasks THEN Searched(<<>>, visited, path)
    ELSE IF tasks[task_id].deps = <<>> THEN Searched(<<>>, visited, Pop(path))
    ELSE SearchDeps(tasks, tasks[task_id].deps, 1, visited, path)

HasCircularDependency(tasks, task_id, visited, path) ==
    IF InPath(task_id, path)
    THEN Searched(SubSeq(path, PathIndex(path, task_id), Len(path)) \o <<task_id>>,
                  visited, path)
    ELSE IF task_id \in visited THEN Searched(<<>>, visited, path)
    ELSE SearchFrom(tasks, task_id, visited \cup {task_id}, Append(path, task_id))

\* Validation 3: one fresh search from every task id
CircularDeps(tasks, order) ==
    SelectSeq([k \in DOMAIN order |-> HasCircularDependency(tasks, order[k], {}, <<>>).result],
              LAMBDA cycle : cycle # <<>>)

\* strptime(date_str, '%Y-%m-%d'), NoDate for None
VtParseDate(date_str) == StrpTime(date_str, "%Y-%m-%d")

\* Validation 6: the issues of one task that has dependencies
TimelineIssuesOf(tasks, id, task_start, task_end) ==
    IF task_start = NoDate \/ task_end = NoDate THEN {<<id, 0, "Invalid date format">>}
    ELSE {<<id, k, "Dependency has invalid date format">> : k \in
            {k \in DOMAIN tasks[id].deps :
                /\ tasks[id].deps[k] \in DOMAIN tasks
                /\ (VtParseDate(tasks[tasks[id].deps[k]].start) = NoDate
                    \/ VtParseDate(tasks[tasks[id].deps[k]].end) = NoDate)}}
         \cup {<<id, k, "Task starts before dependency ends">> : k \in
            {k \in DOMAIN tasks[id].deps :
                /\ tasks[id].deps[k] \in DOMAIN tasks
                /\ VtParseDate(tasks[tasks[id].deps[k]].start) # NoDate
                /\ VtParseDate(tasks[tasks[id].deps[k]].end) # NoDate
                /\ task_start < VtParseDate(tasks[tasks[id].deps[k]].end)}}
         \cup {<<id, k, "Task ends before dependency ends">> : k \in
            {k \in DOMAIN tasks[id].deps :
                /\ tasks[id].deps[k] \in DOMAIN tasks
                /\ VtParseDate(tasks[tasks[id].deps[k]].start) # NoDate
                /\ VtParseDate(tasks[tasks[id].deps[k]].end) # NoDate
                /\ task_end < VtParseDate(tasks[tasks[id].deps[k]].end)}}
         \cup (IF task_start > task_end THEN {<<id, 0, "Task starts after it ends">>} ELSE {})

TimelineIssues(tasks) ==
    UNION {TimelineIssuesOf(tasks, id, VtParseDate(tasks[id].start), VtParseDate(tasks[id].end)) :
            id \in {t \in DOMAIN tasks : tasks[t].deps # <<>>}}

\* the errors list in the order the validations append to it
ErrorsOf(duplicates, missing_deps, circular_deps, timeline_issues) ==
    (IF duplicates # <<>> THEN <<"Duplicate Task IDs found">> ELSE <<>>)
    \o (IF missing_deps # {} THEN <<"Missing dependencies found">> ELSE <<>>)
    \o (IF circular_deps # <<>> THEN <<"Circular dependencies found">> ELSE <<>>)
    \o (IF timeline_issues # {} THEN <<"Timeline logic issues found">> ELSE <<>>)

Validated(rows, circular_deps, errors) ==
    [op |-> "validate_timeline", rows |-> rows, circular_deps |-> circular_deps,
     errors |-> errors, value |-> (errors = <<>>)]

ValidatedWith(rows, tasks, order, circular_deps) ==
    Validated(rows, circular_deps,
              ErrorsOf(Duplicates(order, 1, {}, <<>>), MissingDepsOf(tasks, TaskIdsOf(rows)),
                       circular_deps, TimelineIssues(tasks)))

\* validate_timeline(csv_file): the warnings of validations 4, 5, 7 and 8
\* do not enter the errors or the return value
ValidateTimelineFile(rows, order) ==
    ValidatedWith(rows, TasksOf(rows), order, CircularDeps(TasksOf(rows), order))

VtIds == {"T1.1", "T1.2"}
VtDeps == {<<>>} \cup UNION {[1..n -> VtIds \cup {"T9.9"}] : n \in 1..MaxRows}
VtDates == {D1, D2}
VtFiles == UNION {[1..n -> {VtRow(id, deps, start, end) :
                              id \in VtIds, deps \in VtDeps, start \in {D1}, end \in VtDates}]
                  : n \in 1..MaxRows}

VtInit ==
    /\ csv \in VtFiles
    /\ res = NoResult
    /\ app = AppIdle
    /\ DebugIdle

Validate ==
    /\ \E order \in IterationOrders(TaskIdsOf(csv)) : ret' = ValidateTimelineFile(csv, order)
    /\ UNCHANGED <<csv, res, app, issue, active_sessions, session_history, now, files, db>>

VtNext == Validate

SpecValidate == VtInit /\ [][VtNext]_vars

\* a Task ID that more than one row of the file carries
DuplicatedIds(rows) ==
    {rows[i].id : i \in {i \in DOMAIN rows : \E j \in DOMAIN rows : j # i /\ rows[j].id = rows[i].id}}

\* C14: whenever the same Task ID appears in more than one row of the file,
\* validate_timeline reports a duplicate-Task-ID error and returns False.
C14_DuplicateIdReported ==
    (ret.op = "validate_timeline" /\ DuplicatedIds(ret.rows) # {}) =>
        /\ InPath("Duplicate Task IDs found", ret.errors)
        /\ ret.value = FALSE

\* the dependency graph over the tasks present: an entry naming no task is
\* not an edge
DepEdge(tasks, a, b) ==
    /\ a \in DOMAIN tasks
    /\ b \in DOMAIN tasks
    /\ InPath(b, tasks[a].deps)

RECURSIVE Reaches(_, _, _, _)
Reaches(tasks, a, b, n) ==
    \/ DepEdge(tasks, a, b)
    \/ /\ n > 0
       /\ \E c \in DOMAIN tasks : DepEdge(tasks, a, c) /\ Reaches(tasks, c, b, n - 1)

HasCycle(tasks) == \E a \in DOMAIN tasks : Reaches(tasks, a, a, Cardinality(DOMAIN tasks))

RealCycle(tasks, cycle) ==
    /\ Len(cycle) >= 2
    /\ cycle[1] = cycle[Len(cycle)]
    /\ \A k \in 1..(Len(cycle) - 1) : DepEdge(tasks, cycle[k], cycle[k + 1])

\* C15: validate_timeline reports a circular-dependency error exactly when
\* the dependency graph over the tasks present in the file contains a cycle,
\* and every cycle it reports is a cycle of that graph.
C15_CycleReportedIffReal ==
    ret.op = "validate_timeline" =>
        /\ InPath("Circular dependencies found", ret.errors) <=> HasCycle(TasksOf(ret.rows))
        /\ \A k \in DOMAIN ret.circular_deps : RealCycle(TasksOf(ret.rows), ret.circular_deps[k])

-----------------------------------------------------------------------------
(* src/fix_dependencies_final.py: fix_dependencies_final(input_file,         *)
(* output_file). A row is [id, start, due, deps]: start and due are the      *)
(* 'Start Date' and 'Due Date' cells, deps the entries of the Dependencies   *)
(* cell between its commas. A datetime is the day number yyyymmdd.           *)

MaxFixRows == 3

FixRow(id, start, due, deps) == [id |-> id, start |-> start, due |-> due, deps |-> deps]

\* parse_date; NoDate where strptime raises ValueError
FixParseDate(date_str) == StrpTime(date_str, "%Y-%m-%d")

\* format_date
FormatDate(date_obj) == Dash(Year(date_obj), Month(date_obj), Day(date_obj))

\* parse_dependencies
ParseDependencies(deps) == SelectSeq(deps, Truthy)

\* date_obj + timedelta(days=1) and date_obj - timedelta(days=1)
NextDay(d) ==
    IF Day(d) < DaysInMonth(Year(d), Month(d)) THEN d + 1
    ELSE IF Month(d) < 12 THEN MkDate(Year(d), Month(d) + 1, 1)
    ELSE MkDate(Year(d) + 1, 1, 1)

PrevDay(d) ==
    IF Day(d) > 1 THEN d - 1
    ELSE IF Month(d) > 1 THEN MkDate(Year(d), Month(d) - 1, DaysInMonth(Year(d), Month(d) - 1))
    ELSE MkDate(Year(d) - 1, 12, 31)

\* date_obj + timedelta(days=n)
RECURSIVE AddDays(_, _)
AddDays(d, n) ==
    IF n = 0 THEN d
    ELSE IF n > 0 THEN AddDays(NextDay(d), n - 1)
    ELSE AddDays(PrevDay(d), n + 1)

\* (a - b).days
DaysBetween(a, b) == ToOrdinal(a) - ToOrdinal(b)

\* the rows the reading loop keeps
FixKept(rows) == SelectSeq(rows, LAMBDA row : Truthy(row.id))

\* task_list
TaskList(rows) == [k \in DOMAIN FixKept(rows) |-> FixKept(rows)[k].id]

\* the reading loop filling tasks: a later row of an id replaces the earlier
RECURSIVE ReadTasks(_, _, _)
ReadTasks(rows, k, tasks) ==
    IF k > Len(rows) THEN tasks
    ELSE ReadTasks(rows, k + 1,
            IF ~Truthy(rows[k].id) THEN tasks
            ELSE (rows[k].id :> [data |-> rows[k],
                                 start_date |-> FixParseDate(rows[k].start),
                                 due_date |-> FixParseDate(rows[k].due),
                                 dependencies |-> ParseDependencies(rows[k].deps)]) @@ tasks)

\* the order of tasks.items(): the ids by their first row
RECURSIVE ItemsOrder(_, _, _)
ItemsOrder(task_list, k, order) ==
    IF k > Len(task_list) THEN order
    ELSE ItemsOrder(task_list, k + 1,
                    IF InPath(task_list[k], order) THEN order ELSE Append(order, task_list[k]))

\* the issues of one task, dependency by dependency
RECURSIVE IssuesOfTask(_, _, _, _)
IssuesOfTask(tasks, task_id, k, found) ==
    IF k > Len(tasks[task_id].dependencies) THEN found
    ELSE IssuesOfTask(tasks, task_id, k + 1,
            IF /\ tasks[task_id].dependencies[k] \in DOMAIN tasks
               /\ tasks[task_id].start_date <= tasks[tasks[task_id].dependencies[k]].due_date
            THEN Append(found, [task_id |-> task_id,
                                dep_id |-> tasks[task_id].dependencies[k],
                                dep_finish |-> tasks[tasks[task_id].dependencies[k]].due_date,
                                task_start |-> tasks[task_id].start_date])
            ELSE found)

\* issues_found
RECURSIVE IssuesFound(_, _, _, _)
IssuesFound(tasks, order, k, found) ==
    IF k > Len(order) THEN found
    ELSE IssuesFound(tasks, order, k + 1, IssuesOfTask(tasks, order[k], 1, found))

\* one pass of the fixing loop: the task starts the day after the dependency
\* finished and keeps its duration
Moved(task, new_start_date, new_due_date) ==
    [task EXCEPT !.start_date = new_start_date, !.due_date = new_due_date,
                 !.data.start = FormatDate(new_start_date),
                 !.data.due = FormatDate(new_due_date)]

FixOne(tasks, task_id, new_start_date) ==
    [tasks EXCEPT ![task_id] =
        Moved(@, new_start_date,
              AddDays(new_start_date, DaysBetween(@.due_date, @.start_date)))]

RECURSIVE FixIssues(_, _, _)
FixIssues(tasks, issues_found, k) ==
    IF k > Len(issues_found) THEN tasks
    ELSE FixIssues(FixOne(tasks, issues_found[k].task_id, NextDay(issues_found[k].dep_finish)),
                   issues_found, k + 1)

\* the rows written to output_file
WriteRows(tasks, task_list) == [k \in DOMAIN task_list |-> tasks[task_list[k]].data]

Fixed(exc, written, rows, fixed_tasks) ==
    [op |-> "fix_dependencies_final", exc |-> exc, written |-> written, rows |-> rows,
     fixed_tasks |-> fixed_tasks]

FixWith(tasks, task_list, issues_found) ==
    IF issues_found = <<>> THEN Fixed(None, FALSE, <<>>, 0)
    ELSE Fixed(None, TRUE, WriteRows(FixIssues(tasks, issues_found, 1), task_list),
               Len(issues_found))

FixRead(tasks, task_list) ==
    FixWith(tasks, task_list, IssuesFound(tasks, ItemsOrder(task_list, 1, <<>>), 1, <<>>))

\* fix_dependencies_final(input_file, output_file): nothing is written when a
\* date cell does not parse or when no issue is found
FixDependenciesFinal(rows) ==
    IF \E k \in DOMAIN FixKept(rows) :
          FixParseDate(FixKept(rows)[k].start) = NoDate \/ FixParseDate(FixKept(rows)[k].due) = NoDate
    THEN Fixed("ValueError", FALSE, <<>>, 0)
    ELSE FixRead(ReadTasks(rows, 1, <<>>), TaskList(rows))

FixIds == <<"T1", "T2", "T3", "T4">>
FixDates == {<<D1, D1>>, <<D1, Dash(2025, 1, 31)>>, <<Dash(2025, 1, 31), Dash(2025, 1, 31)>>,
             <<Dash(2025, 1, 31), D1>>}
FixDeps(n) == {<<>>} \cup UNION {[1..m -> {FixIds[k] : k \in 1..n}] : m \in 1..2}
\* a file of n rows with distinct ids, dates and dependencies as chosen
FixFile(n, cells) == [k \in 1..n |-> FixRow(FixIds[k], cells[k][1][1], cells[k][1][2], cells[k][2])]

FixInit ==
    /\ \E n \in 1..MaxFixRows : \E cells \in [1..n -> FixDates \X FixDeps(n)] :
          csv = FixFile(n, cells)
    /\ res = NoResult
    /\ app = AppIdle
    /\ DebugIdle

Fix ==
    /\ ret' = FixDependenciesFinal(csv)
    /\ UNCHANGED <<csv, res, app, issue, active_sessions, session_history, now, files, db>>

FixNext == Fix

SpecFix == FixInit /\ [][FixNext]_vars

\* C16: after fix_dependencies_final has written its output, every task of
\* the file starts strictly after the due date of each of its dependencies
\* that exists in the file.
C16_StartsAfterDependencies ==
    (ret.op = "fix_dependencies_final" /\ ret.written) =>
        \A t, d \in DOMAIN ret.rows :
            InPath(ret.rows[d].id, ParseDependencies(ret.rows[t].deps)) =>
                FixParseDate(ret.rows[t].start) > FixParseDate(ret.rows[d].due)

\* C20: when handle_issue returns success=True, the session it created has
\* status RESOLVED and its final_solution is the solution of the successful
\* attempt.
C20_SuccessMeansResolved ==
    (ret.op = "handle_issue" /\ ret.value[1] = TRUE) =>
        /\ HandledSession.status = "RESOLVED"
        /\ \E k \in 1..Len(HandledSession.attempts) :
              /\ HandledSession.attempts[k].success
              /\ HandledSession.final_solution = HandledSession.attempts[k].solution

-----------------------------------------------------------------------------
(* AdHocDebugger (debug_system.py), its operations called one by one *)

\* AdHocDebugger.escalate_to_manager: [exc, value, sessions, files]
EscalateToManager(sessions, fs, session_id, escalation_reason, t) ==
    IF session_id \notin DOMAIN sessions
    THEN [exc |-> None, value |-> FALSE, sessions |-> sessions, files |-> fs]
    ELSE [exc |-> SaveSessionFile(fs, [sessions[session_id] EXCEPT
                                          !.status = "ESCALATED",
                                          !.escalation_reason = escalation_reason,
                                          !.updated_at = t]).exc,
          value |-> SaveSessionFile(fs, [sessions[session_id] EXCEPT
                                          !.status = "ESCALATED",
                                          !.escalation_reason = escalation_reason,
                                          !.updated_at = t]).exc = None,
          sessions |-> [sessions EXCEPT ![session_id] =
                          [@ EXCEPT !.status = "ESCALATED",
                                    !.escalation_reason = escalation_reason,
                                    !.updated_at = t]],
          files |-> SaveSessionFile(fs, [sessions[session_id] EXCEPT
                                          !.status = "ESCALATED",
                                          !.escalation_reason = escalation_reason,
                                          !.updated_at = t]).files]

\* the status of a session, None when there is no such session
StatusOf(sessions, session_id) ==
    IF session_id \in DOMAIN sessions THEN sessions[session_id].status ELSE None

AttemptsOf(sessions, session_id) ==
    IF session_id \in DOMAIN sessions THEN sessions[session_id].attempts ELSE <<>>

\* debugger.create_debug_session(issue_id, title, description)
CreateSessionAs(session) ==
    /\ active_sessions' = Put(active_sessions, session.session_id, session)
    /\ session_history' = Append(session_history, session.session_id)
    /\ ret' = [op |-> "create_debug_session", session_id |-> session.session_id]

MaxDebuggerSessions == 1

CreateSession ==
    /\ Len(session_history) < MaxDebuggerSessions
    /\ \E i \in DebugIssues : CreateSessionAs(CreateDebugSession(session_history, i, now))
    /\ UNCHANGED <<now, files, db>>
    /\ DebugFrame

\* debugger.attempt_local_debug(session_id, debug_function): debug_function
\* is called exactly when neither ValueError is raised
AttemptWith(session_id, outcome, a) ==
    /\ active_sessions' = a.sessions
    /\ ret' = [op |-> "attempt_local_debug", session_id |-> session_id,
               outcome |-> outcome, exc |-> a.exc, called |-> (a.exc = None),
               attempts_before |-> AttemptsOf(active_sessions, session_id),
               status_before |-> StatusOf(active_sessions, session_id)]

Attempt ==
    /\ \E session_id \in SessionIds, outcome \in {"returns", "raises"} :
          AttemptWith(session_id, outcome,
                      AttemptLocalDebug(active_sessions, session_id, outcome, now))
    /\ UNCHANGED <<now, session_history, files, db>>
    /\ DebugFrame

\* debugger.generate_delegation_prompt(session_id)
Delegate ==
    /\ \E session_id \in SessionIds :
          IF session_id \in DOMAIN active_sessions
          THEN /\ active_sessions' = GenerateDelegationPrompt(active_sessions, session_id, now)
               /\ ret' = [op |-> "generate_delegation_prompt", session_id |-> session_id,
                          exc |-> None,
                          status_before |-> StatusOf(active_sessions, session_id)]
          ELSE /\ active_sessions' = active_sessions
               /\ ret' = [op |-> "generate_delegation_prompt", session_id |-> session_id,
                          exc |-> "ValueError", status_before |-> None]
    /\ UNCHANGED <<now, session_history, files, db>>
    /\ DebugFrame

\* debugger.escalate_to_manager(session_id, escalation_reason)
EscalateWith(session_id, done) ==
    /\ active_sessions' = done.sessions
    /\ files' = done.files
    /\ ret' = [op |-> "escalate_to_manager", session_id |-> session_id,
               exc |-> done.exc, value |-> done.value,
               status_before |-> StatusOf(active_sessions, session_id)]

Escalate ==
    /\ \E session_id \in SessionIds :
          EscalateWith(session_id,
                       EscalateToManager(active_sessions, files, session_id,
                                         "Requires specialized expertise", now))
    /\ UNCHANGED <<now, session_history, db>>
    /\ DebugFrame

\* debugger.integrate_solution(session_id, solution_findings)
IntegrateWith(session_id, done) ==
    /\ active_sessions' = done.sessions
    /\ files' = done.files
    /\ db' = done.db
    /\ ret' = [op |-> "integrate_solution", session_id |-> session_id,
               exc |-> done.exc, value |-> done.value,
               status_before |-> StatusOf(active_sessions, session_id)]

Integrate ==
    /\ \E session_id \in SessionIds :
          /\ session_id \in DOMAIN active_sessions
                => Solutions(active_sessions[session_id]) < MaxSolutions
          /\ IntegrateWith(session_id,
                           IntegrateSolution(active_sessions, files, db, session_id,
                                             "Root cause analysis and fix", now))
    /\ UNCHANGED <<now, session_history>>
    /\ DebugFrame

DebuggerNext == CreateSession \/ Attempt \/ Delegate \/ Escalate \/ Integrate

SpecDebugger == DebugInit /\ [][DebuggerNext]_vars

\* the attempts of a session that attempt_local_debug recorded
LocalAttempts(session) ==
    Cardinality({k \in 1..Len(session.attempts) :
                    session.attempts[k].description # "Ad-Hoc agent solution integration"})

\* C17: attempt_local_debug on a session that already has max_local_attempts
\* attempts raises ValueError without calling the debug function and leaves
\* the session's attempts and status unchanged; so no session ever has more
\* than max_local_attempts attempts recorded by attempt_local_debug.
C17_NoAttemptBeyondLimit ==
    [][/\ (/\ ret'.op = "attempt_local_debug"
           /\ Len(AttemptsOf(active_sessions, ret'.session_id)) >= max_local_attempts)
          => /\ ret'.exc = "ValueError"
             /\ ~ret'.called
             /\ active_sessions'[ret'.session_id].attempts
                    = active_sessions[ret'.session_id].attempts
             /\ active_sessions'[ret'.session_id].status
                    = active_sessions[ret'.session_id].status
       /\ \A session_id \in DOMAIN active_sessions' :
             LocalAttempts(active_sessions'[session_id]) <= max_local_attempts]_vars

\* attempt_local_debug was called on a session with two attempts and refused
C17_Witness ==
    /\ ret.op = "attempt_local_debug"
    /\ ret.exc = "ValueError"
    /\ Len(ret.attempts_before) = max_local_attempts
    /\ active_sessions[ret.session_id].attempts = ret.attempts_before
    /\ LocalAttempts(active_sessions[ret.session_id]) = max_local_attempts

\* C18: whenever attempt_local_debug sets a session's status to ESCALATED,
\* the session has exactly max_local_attempts recorded attempts and every one
\* of them failed.
C18_EscalatedAfterFailures ==
    (/\ ret.op = "attempt_local_debug"
     /\ ret.exc = None
     /\ ret.status_before # "ESCALATED"
     /\ active_sessions[ret.session_id].status = "ESCALATED") =>
        /\ Len(active_sessions[ret.session_id].attempts) = max_local_attempts
        /\ \A k \in 1..Len(active_sessions[ret.session_id].attempts) :
              ~active_sessions[ret.session_id].attempts[k].success

\* C19: once a session's status is RESOLVED, no operation of the debugger
\* changes it.
C19_ResolvedIsTerminal ==
    [][\A session_id \in DOMAIN active_sessions :
          active_sessions[session_id].status = "RESOLVED"
              => active_sessions'[session_id].status = "RESOLVED"]_vars

-----------------------------------------------------------------------------
(* SessionIntegration (session_manager.py) on the debugger and the session  *)
(* manager it holds                                                         *)

\* an exception: its type and the words of str(error)
AppErrors ==
    {[type |-> "FileNotFoundError", message |-> <<"typo">>],
     [type |-> "FileNotFoundError", message |-> <<"deadlock">>],
     [type |-> "ValueError", message |-> <<"typo">>]}

\* type(error).__name__.lower(), one word
LowerTypeName(error) ==
    CASE error.type = "FileNotFoundError" -> "filenotfounderror"
      [] error.type = "PermissionError" -> "permissionerror"
      [] error.type = "ImportError" -> "importerror"
      [] error.type = "SyntaxError" -> "syntaxerror"
      [] OTHER -> "valueerror"

\* the issue handle_application_error reports for an error, context=None
IssueOfError(error, t) ==
    [issue_id |-> "app_error_" \o ToString(t),
     title |-> "Application Error: " \o error.type,
     text |-> [NoIssue EXCEPT
                 !.description = <<"an", "error", "occurred", "in", "the", "application:">>
                                     \o error.message,
                 !.error_context = <<LowerTypeName(error)>> \o error.message \o <<"{}">>,
                 !.has_context = TRUE]]

\* _attempt_basic_recovery
AttemptBasicRecovery(error) ==
    CASE error.type = "FileNotFoundError" -> "File not found - check file path and permissions"
      [] error.type = "PermissionError" -> "Permission denied - check file/directory permissions"
      [] error.type = "ImportError" -> "Import error - check module installation and Python path"
      [] error.type = "SyntaxError" -> "Syntax error - check code syntax and indentation"
      [] OTHER -> None

\* the session after a basic recovery
RecoveredUnrecorded(session, recovery_result) == [session EXCEPT !.status = "RESOLVED"]

Recovered(session, recovery_result) ==
    [session EXCEPT !.status = "RESOLVED", !.final_solution = recovery_result]

\* handle_application_error from the saving of the session on:
\* [value, sessions, db, files]
ErrorHandled(success, sessions, d, fs, session) ==
    [value |-> success, sessions |-> sessions,
     db |-> SessionManagerSaveSession(d, fs, session).db,
     files |-> SessionManagerSaveSession(d, fs, session).files]

ErrorDelegated(sessions, d, fs, session_id) ==
    ErrorHandled(FALSE, sessions, d, fs, sessions[session_id])

\* handle_application_error, the session being created
HandleErrorSession(sessions, d, fs, session, error, t) ==
    IF session.complexity = "SIMPLE" /\ AttemptBasicRecovery(error) # None
    THEN ErrorHandled(TRUE,
                      Put(sessions, session.session_id,
                          Recovered(session, AttemptBasicRecovery(error))),
                      d, fs, Recovered(session, AttemptBasicRecovery(error)))
    ELSE ErrorDelegated(GenerateDelegationPrompt(Put(sessions, session.session_id, session),
                                                 session.session_id, t),
                        d, fs, session.session_id)

\* SessionIntegration.handle_application_error(error)
HandleApplicationError(sessions, history, d, fs, error, t) ==
    HandleErrorSession(sessions, d, fs,
                       CreateDebugSession(history, IssueOfError(error, t), t), error, t)

HandleErrorWith(error, handled) ==
    /\ active_sessions' = handled.sessions
    /\ session_history' = Append(session_history, SessionUuid(session_history))
    /\ db' = handled.db
    /\ files' = handled.files
    /\ ret' = [op |-> "handle_application_error", session_id |-> SessionUuid(session_history),
               error |-> error, value |-> handled.value]

HandleError ==
    /\ Len(session_history) < MaxDebuggerSessions
    /\ \E error \in AppErrors :
          HandleErrorWith(error,
                          HandleApplicationError(active_sessions, session_history, db, files,
                                                 error, now))
    /\ UNCHANGED now
    /\ DebugFrame

IntegrationNext == DebuggerNext \/ HandleError

SpecIntegration == DebugInit /\ [][IntegrationNext]_vars

HasSolutionIfResolved(session) ==
    (session # NoSession /\ session.status = "RESOLVED") => session.final_solution # None

\* C21: after any sequence of debugger and session-integration operations, a
\* session whose status is RESOLVED has a final_solution that is not None,
\* in memory and as loaded from the session file or the database.
C21_ResolvedHasSolution ==
    /\ \A session_id \in DOMAIN active_sessions :
          HasSolutionIfResolved(active_sessions[session_id])
    /\ \A session_id \in SessionIds :
          /\ HasSolutionIfResolved(LoadSessionFile(files, session_id))
          /\ HasSolutionIfResolved(SessionManagerLoadSession(db, session_id))

\* an error was resolved by basic recovery, and its session is RESOLVED in
\* memory and in the database
C21_Witness ==
    /\ ret.op = "handle_application_error"
    /\ ret.value
    /\ active_sessions[ret.session_id].status = "RESOLVED"
    /\ active_sessions[ret.session_id].final_solution # None
    /\ SessionManagerLoadSession(db, ret.session_id).status = "RESOLVED"

-----------------------------------------------------------------------------
(* DebugCLI.handle_issue and the session database *)

\* the session the last create_debug_session made
CreatedSessionId == session_history[Len(session_history)]

\* C22: each call to DebugCLI.handle_issue saves to the session database the
\* session that was created for the issue of that call, also when the same
\* DebugCLI instance has handled other sessions before.
C22_CliSavesCreatedSession ==
    (ret.op = "cli_handle_issue" /\ ret.created) =>
        /\ CreatedSessionId \in DOMAIN db.sessions
        /\ SameSession(SessionManagerLoadSession(db, CreatedSessionId),
                       active_sessions[CreatedSessionId])

-----------------------------------------------------------------------------
(* AdHocDebugger.cleanup_completed_sessions *)

completed_statuses == {"RESOLVED", "ESCALATED"}

\* to_remove
ToRemove(sessions) ==
    {session_id \in DOMAIN sessions : sessions[session_id].status \in completed_statuses}

\* active_sessions after "del self.active_sessions[session_id]" for each
CleanupCompletedSessions(sessions) ==
    [session_id \in (DOMAIN sessions) \ ToRemove(sessions) |-> sessions[session_id]]

\* debugger.cleanup_completed_sessions()
CleanupCompleted ==
    /\ active_sessions' = CleanupCompletedSessions(active_sessions)
    /\ ret' = [op |-> "cleanup_completed_sessions",
               removed |-> ToRemove(active_sessions),
               value |-> Cardinality(ToRemove(active_sessions))]
    /\ UNCHANGED <<now, session_history, files, db>>
    /\ DebugFrame

CleanupNext == DebuggerNext \/ CleanupCompleted

SpecCleanup == DebugInit /\ [][CleanupNext]_vars

\* C23: every session cleanup_completed_sessions removes from active_sessions
\* (status RESOLVED or ESCALATED) can still be obtained afterwards with
\* load_session, and the sessions of any other status stay in active_sessions.
C23_RemovedSessionsStayOnDisk ==
    [][ret'.op = "cleanup_completed_sessions" =>
          \A session_id \in DOMAIN active_sessions :
              IF active_sessions[session_id].status \in completed_statuses
              THEN session_id \notin DOMAIN active_sessions'
                      => LoadSessionFile(files', session_id) # NoSession
              ELSE /\ session_id \in DOMAIN active_sessions'
                   /\ active_sessions'[session_id] = active_sessions[session_id]]_vars

-----------------------------------------------------------------------------
(* SessionManager.cleanup_old_sessions (session_manager.py). Time is counted *)
(* in days.                                                                  *)

session_retention_days == 30

\* WHERE created_at < ? AND status IN (?, ?), whatever the status
OldRow(row, cutoff_date) == row.created_at.iso < Isoformat(cutoff_date).iso

\* WHERE created_at < ? AND status IN (?, ?)
OldCompletedRow(row, cutoff_date) ==
    /\ row.created_at.iso < Isoformat(cutoff_date).iso
    /\ row.status \in {EnumValue("RESOLVED"), EnumValue("ESCALATED")}

\* old_sessions
OldSessions(d, cutoff_date) ==
    {session_id \in DOMAIN d.sessions : OldCompletedRow(d.sessions[session_id], cutoff_date)}

\* cleanup_old_sessions, given old_sessions: [value, db, files]
DeleteSessions(d, fs, old_sessions) ==
    [value |-> Cardinality(old_sessions),
     db |-> [sessions |-> [session_id \in (DOMAIN d.sessions) \ old_sessions |->
                              d.sessions[session_id]],
             attempts |-> SelectSeq(d.attempts,
                                    LAMBDA row : row.session_id \notin old_sessions)],
     files |-> [session_id \in (DOMAIN fs) \ old_sessions |-> fs[session_id]]]

\* SessionManager.cleanup_old_sessions at time t
CleanupOldSessions(d, fs, t) ==
    DeleteSessions(d, fs, OldSessions(d, t - session_retention_days))

\* the sessions handed to save_session
Statuses == {"PENDING", "IN_PROGRESS", "RESOLVED", "FAILED", "ESCALATED"}

StoredSession(session_id, status, created_at, times) ==
    DebugSession(session_id, "test_issue_001", "Test Session", <<"test", "session">>,
                 "SIMPLE", status, created_at, created_at,
                 CallerAttempts(session_id, times))

\* session_manager.save_session(session)
SaveStored ==
    /\ \E session_id \in SessionIds, status \in Statuses, created_at \in Times,
          times \in {<<>>, <<0>>} :
          SaveSessionAs(StoredSession(session_id, status, created_at, times),
                        SessionManagerSaveSession(db, files,
                            StoredSession(session_id, status, created_at, times)))
    /\ StoreFrame

\* a day passes
Tick ==
    /\ now < session_retention_days + MaxTime + 1
    /\ now' = now + 1
    /\ UNCHANGED <<csv, res, app, issue, ret, active_sessions, session_history, files, db>>

CleanupOldWith(done) ==
    /\ db' = done.db
    /\ files' = done.files
    /\ ret' = [op |-> "cleanup_old_sessions", value |-> done.value]

\* session_manager.cleanup_old_sessions()
CleanupOld ==
    /\ CleanupOldWith(CleanupOldSessions(db, files, now))
    /\ StoreFrame

RetentionNext == SaveStored \/ Tick \/ CleanupOld

SpecRetention == StoreInit /\ [][RetentionNext]_vars

\* C24: cleanup_old_sessions deletes a session if and only if it was created
\* more than session_retention_days days ago and its status is resolved or
\* escalated (its row, its attempts and its file go); a pending or
\* in-progress session is never deleted, whatever its age; and the returned
\* count is the number of sessions deleted. (A step that leaves the clock
\* alone and ends with the return value of a cleanup is a cleanup.)
C24_DeletesOldCompletedOnly ==
    [][(ret'.op = "cleanup_old_sessions" /\ now' = now) =>
          /\ \A session_id \in DOMAIN db.sessions :
                /\ (session_id \notin DOMAIN db'.sessions)
                      <=> (/\ now - FromIsoformat(db.sessions[session_id].created_at)
                                  > session_retention_days
                           /\ EnumOf(db.sessions[session_id].status)
                                  \in {"RESOLVED", "ESCALATED"})
                /\ (session_id \notin DOMAIN db'.sessions)
                      => /\ session_id \notin DOMAIN files'
                         /\ SelectAttempts(db'.attempts, session_id) = <<>>
                /\ (session_id \in DOMAIN db'.sessions)
                      => /\ db'.sessions[session_id] = db.sessions[session_id]
                         /\ SelectAttempts(db'.attempts, session_id)
                                = SelectAttempts(db.attempts, session_id)
                         /\ files'[session_id] = files[session_id]
                /\ EnumOf(db.sessions[session_id].status) \in {"PENDING", "IN_PROGRESS"}
                      => session_id \in DOMAIN db'.sessions
          /\ ret'.value = Cardinality((DOMAIN db.sessions) \ (DOMAIN db'.sessions))]_vars

\* a cleanup that deleted one of two stored sessions
C24_Witness ==
    /\ ret.op = "cleanup_old_sessions"
    /\ ret.value = 1
    /\ Cardinality(DOMAIN db.sessions) = 1
    /\ \E session_id \in DOMAIN db.sessions :
          /\ db.sessions[session_id].status = "resolved"
          /\ now - FromIsoformat(db.sessions[session_id].created_at) = session_retention_days

-----------------------------------------------------------------------------
(* core.py: LaTeXGenerator._generate_timeline_view, the view of a timeline  *)
(* as bars over an axis (latex_generator_new.py's GanttChartGenerator has   *)
(* the same position function and the same loop).  A position is a float   *)
(* in the code; here it is the fraction num/den it is computed from.        *)

\* the axis: \draw (0,0) -- (12,0)
axis_start == 0
axis_end == 12

\* the days that the 12 units of the axis stand for
days_per_year == 365

\* a position that is a whole number of units
Units(n) == [num |-> n, den |-> 1]

\* a <= b for positions (den > 0)
PosLeq(a, b) == a.num * b.den <= b.num * a.den

\* LaTeXGenerator._calculate_timeline_position: (days_diff / 365.0) * 12
CalculateTimelinePosition(date, start_date) ==
    [num |-> (ToOrdinal(date) - ToOrdinal(start_date)) * axis_end,
     den |-> days_per_year]

\* the loop of _generate_timeline_view: what is drawn for each task
TimelineBars(tl) ==
    [k \in 1..Len(tl.tasks) |->
        [id |-> tl.tasks[k].id,
         is_milestone |-> tl.tasks[k].is_milestone,
         start_x |-> CalculateTimelinePosition(tl.tasks[k].start_date, tl.start_date),
         end_x |-> CalculateTimelinePosition(tl.tasks[k].due_date, tl.start_date)]]

\* the dates of the rows: a day, six weeks later, 365 and 366 days later
ViewDates == <<D1, D2, Dash(2026, 1, 2), Dash(2026, 1, 3)>>

ViewIds == <<"A", "B", "C">>

\* a file of n rows, the k-th with the dates cells[k] names
ViewFile(n, cells) ==
    [k \in 1..n |-> Row(6, ViewIds[k], "n", ViewDates[cells[k][1]],
                        ViewDates[cells[k][2]], "")]

ViewInit ==
    /\ \E n \in 1..MaxRows :
         \E cells \in [1..n -> (1..Len(ViewDates)) \X (1..Len(ViewDates))] :
            csv = ViewFile(n, cells)
    /\ res = CoreProcessCsvToTimeline(csv, "core", "core", <<Today, Today>>)
    /\ app = AppIdle
    /\ DebugIdle

\* LaTeXGenerator()._generate_timeline_view(timeline) on the timeline that
\* DataProcessor().process_csv_to_timeline built from the file
GenerateTimelineView ==
    /\ res.status = "ok"
    /\ ret' = [op |-> "generate_timeline_view", bars |-> TimelineBars(res)]
    /\ UNCHANGED <<csv, res, app, issue, active_sessions, session_history, now,
                   files, db>>

ViewNext == GenerateTimelineView

SpecView == ViewInit /\ [][ViewNext]_vars

\* C25: in the generated timeline view every task's bar lies on the drawn
\* axis: for every task of any timeline, 0 <= start_x <= end_x <= 12.
C25_BarsOnAxis ==
    ret.op = "generate_timeline_view" =>
        \A k \in 1..Len(ret.bars) :
            /\ PosLeq(Units(axis_start), ret.bars[k].start_x)
            /\ PosLeq(ret.bars[k].start_x, ret.bars[k].end_x)
            /\ PosLeq(ret.bars[k].end_x, Units(axis_end))

\* what does hold of the bars: they start at or after the axis start, do
\* not end before they start, and end on the axis when the task is due at
\* most 365 days after the timeline's start
C25_BarsOrderedFromAxisStart ==
    ret.op = "generate_timeline_view" =>
        \A k \in 1..Len(ret.bars) :
            /\ PosLeq(Units(axis_start), ret.bars[k].start_x)
            /\ PosLeq(ret.bars[k].start_x, ret.bars[k].end_x)
            /\ PosLeq(ret.bars[k].end_x, Units(axis_end))
                 <=> ToOrdinal(res.tasks[k].due_date) - ToOrdinal(res.start_date)
                        <= days_per_year

====
